---- MODULE Spec2Model ----
(***************************************************************************)
(* A model of the board storage layer (src/src/board/storage.ts): the      *)
(* workspace's board file and ticket files, and the lifecycle operations   *)
(* initBoard, createTicket, updateTicket, moveTicket, addComment and       *)
(* deleteTicket.                                                           *)
(*                                                                         *)
(* Representation.  A string the code inspects character by character (an  *)
(* id, a title) is a sequence of one-character strings.  A free text is a  *)
(* sequence of fragments, so that a template such as                       *)
(* `Moved to ${toStatus}: ${note}` is the concatenation of its parts.      *)
(* A JavaScript object is a function whose DOMAIN is the set of its        *)
(* defined properties: a property that is undefined is absent, which is    *)
(* also what yaml.stringify writes.  An optional value is None or Some(v). *)
(* A timestamp is the number of clock ticks since the workspace was made.  *)
(***************************************************************************)
EXTENDS Integers, Sequences, FiniteSets, TLC

VARIABLES
    board,    \* <workspace>/board/board.yaml: None, or Some(the board)
    dirs,     \* whether <workspace>/board and board/tickets exist
    files,    \* board/tickets/<NAME>.yaml: file name -> stored ticket record
    clock,    \* the wall clock, as read by now()
    last,     \* the most recent call: its name, arguments and outcome
    issued,   \* the ids createTicket has returned so far, in order
    procs     \* the calls in flight: each one's position and local variables

vars == <<board, dirs, files, clock, last, issued, procs>>

-----------------------------------------------------------------------------
(* Bounds of the model.                                                    *)

MaxTickets == 3     \* tickets created in one run of SpecWip
MaxIds == 3         \* tickets created in one run of SpecIds
MaxLife == 1        \* tickets created in one run of Spec
MaxClock == 1       \* clock ticks in one run
MaxComments == 1    \* comments on one ticket
MaxAffix == 2       \* characters before and after a title's run of letters
MaxThread == 2      \* comments on one ticket in SpecThread
MaxNotes == 2       \* progress notes in a record of the older schema
MaxDisk == 2        \* ticket files in the workspace of SpecDisk
MaxIdLen == 3       \* characters of an id passed to sanitizeId in SpecSanitize
MaxQueue == 3       \* ticket files in the workspace of SpecQueue
MaxAges == 2        \* ticket files in the workspace of SpecAges
MaxCreate == 2      \* tickets created in one run of SpecCreate
MaxRpc == 2         \* tickets created in one run of SpecRpc
Day == 24           \* the shorter maxHours passed to getStaleTickets in SpecAges

-----------------------------------------------------------------------------
(* Optional values and objects.                                            *)

None == <<>>
Some(v) == <<v>>
IsSome(o) == o # <<>>
Val(o) == o[1]

Has(obj, k) == k \in DOMAIN obj
\* obj.k as an optional value (undefined is None)
Get(obj, k) == IF k \in DOMAIN obj THEN Some(obj[k]) ELSE None
\* { ...obj, k: v } where v may be undefined
SetKey(obj, k, v) ==
    [x \in (IF IsSome(v) THEN DOMAIN obj \cup {k} ELSE DOMAIN obj \ {k}) |->
        IF x = k THEN Val(v) ELSE obj[x]]
\* { ...obj, ...patch }: every property of patch, an undefined one included,
\* replaces obj's
Spread(obj, patch) ==
    [x \in (DOMAIN obj \ DOMAIN patch) \cup {k \in DOMAIN patch : IsSome(patch[k])} |->
        IF x \in DOMAIN patch THEN Val(patch[x]) ELSE obj[x]]

Min(a, b) == IF a < b THEN a ELSE b

-----------------------------------------------------------------------------
(* Characters and strings.                                                 *)

LowerChars == <<"a","b","c","d","e","f","g","h","i","j","k","l","m",
                "n","o","p","q","r","s","t","u","v","w","x","y","z">>
UpperChars == <<"A","B","C","D","E","F","G","H","I","J","K","L","M",
                "N","O","P","Q","R","S","T","U","V","W","X","Y","Z">>
DigitChars == <<"0","1","2","3","4","5","6","7","8","9">>

Range(s) == {s[i] : i \in DOMAIN s}
LowerSet == Range(LowerChars)
UpperSet == Range(UpperChars)
DigitSet == Range(DigitChars)
IsLower(c) == c \in LowerSet
IsUpper(c) == c \in UpperSet
IsDigit(c) == c \in DigitSet

\* The letters' case mappings, as tables
UpperMap == [c \in LowerSet |-> UpperChars[CHOOSE i \in DOMAIN LowerChars : LowerChars[i] = c]]
LowerMap == [c \in UpperSet |-> LowerChars[CHOOSE i \in DOMAIN UpperChars : UpperChars[i] = c]]
CharToUpper(c) == IF IsLower(c) THEN UpperMap[c] ELSE c
CharToLower(c) == IF IsUpper(c) THEN LowerMap[c] ELSE c
toUpperCase(s) == [i \in 1..Len(s) |-> CharToUpper(s[i])]
toLowerCase(s) == [i \in 1..Len(s) |-> CharToLower(s[i])]
slice(s, n) == SubSeq(s, 1, Min(n, Len(s)))

\* String(n) for n >= 0
RECURSIVE NumToStr(_)
NumToStr(n) ==
    IF n < 10 THEN <<DigitChars[n + 1]>>
    ELSE NumToStr(n \div 10) \o <<DigitChars[(n % 10) + 1]>>

padStart(s, n, c) ==
    IF Len(s) >= n THEN s ELSE [i \in 1..(n - Len(s)) |-> c] \o s

\* id.replace(/[^a-zA-Z0-9_-]/g, "_").toUpperCase()
IsIdChar(c) == IsLower(c) \/ IsUpper(c) \/ IsDigit(c) \/ c = "_" \/ c = "-"
\* An id upper-cased with every character kept
sanitizeIdKeepsAll(id) == toUpperCase(id)
sanitizeId(id) ==
    toUpperCase([i \in 1..Len(id) |-> IF IsIdChar(id[i]) THEN id[i] ELSE "_"])

\* The name of a ticket's file in board/tickets, without ".yaml"
ticketPath(ticketId) == sanitizeId(ticketId)

\* title.toLowerCase().replace(/[^a-z0-9]+/g, "-").replace(/^-|-$/g, "").slice(0, 40)
IsSlugChar(c) == IsLower(c) \/ IsDigit(c)
RECURSIVE CollapseRuns(_)
CollapseRuns(s) ==
    IF s = <<>> THEN <<>>
    ELSE IF IsSlugChar(s[1]) THEN <<s[1]>> \o CollapseRuns(Tail(s))
    ELSE IF Len(s) > 1 /\ ~IsSlugChar(s[2]) THEN CollapseRuns(Tail(s))
    ELSE <<"-">> \o CollapseRuns(Tail(s))
TrimLeading(s) == IF s # <<>> /\ s[1] = "-" THEN Tail(s) ELSE s
TrimTrailing(s) == IF s # <<>> /\ s[Len(s)] = "-" THEN SubSeq(s, 1, Len(s) - 1) ELSE s
TrimHyphens(s) == TrimTrailing(TrimLeading(s))
SlugMax == 40
slugify(title) == slice(TrimHyphens(CollapseRuns(toLowerCase(title))), SlugMax)

CodeLocationOf(idLower, slug) ==
    [branch |-> <<"s","t","o","r","y","/">> \o idLower \o <<"-">> \o slug,
     worktree |-> <<".",".","/","w","t","-">> \o idLower \o <<"-">> \o slug]
deriveCodeLocation(ticketId, title) == CodeLocationOf(toLowerCase(ticketId), slugify(title))

-----------------------------------------------------------------------------
(* The board (src/src/board/index.ts).                                     *)

WipReady == 10
WipInProgress == 2
WipReview == 5

DEFAULT_BOARD_COLUMNS ==
    << [id |-> "backlog", name |-> "Backlog", wipLimit |-> None],
       [id |-> "ready", name |-> "Ready", wipLimit |-> Some(WipReady)],
       [id |-> "in-progress", name |-> "In Progress", wipLimit |-> Some(WipInProgress)],
       [id |-> "review", name |-> "Review", wipLimit |-> Some(WipReview)],
       [id |-> "done", name |-> "Done", wipLimit |-> None] >>

StaleThresholdDays == 7
StaleInProgressHours == 48
FirstTicketNumber == 1

DEFAULT_BOARD_SETTINGS ==
    [defaultPriority |-> "medium", defaultType |-> "feature", autoAssign |-> FALSE,
     staleThresholdDays |-> StaleThresholdDays,
     ticketPrefix |-> <<"T","I","C","K","E","T">>,
     nextTicketNumber |-> FirstTicketNumber,
     staleInProgressHours |-> StaleInProgressHours]

VALID_STATUSES == <<"backlog", "ready", "in-progress", "review", "done">>

PrefixLen == 4

\* The board initBoard builds for (projectId, projectName) at time t
NewBoard(projectId, projectName, t) ==
    [id |-> sanitizeId(projectId),
     name |-> projectName,
     projectId |-> sanitizeId(projectId),
     projectName |-> projectName,
     columns |-> DEFAULT_BOARD_COLUMNS,
     settings |-> [DEFAULT_BOARD_SETTINGS EXCEPT
                      !.ticketPrefix = slice(sanitizeId(projectId), PrefixLen)],
     createdAt |-> t,
     updatedAt |-> t]

\* The board of project ProjA once its counter stands at n
NewBoardNumbered(n) ==
    [NewBoard(<<"p","r","o","j","1">>, "Proj", 0) EXCEPT !.settings.nextTicketNumber = n]

\* board.columns.find((c) => c.id === toStatus): None when there is none
FirstOf(cols, hits) ==
    IF hits = {} THEN None ELSE Some(cols[CHOOSE i \in hits : \A j \in hits : i <= j])
FindColumn(b, status) ==
    FirstOf(b.columns, {i \in DOMAIN b.columns : b.columns[i].id = status})

\* if (targetColumn?.wipLimit): a column, with a limit that is not 0
HasWipLimit(col) == IsSome(col) /\ IsSome(Val(col).wipLimit) /\ Val(Val(col).wipLimit) # 0
WipLimitOf(col) == Val(Val(col).wipLimit)

-----------------------------------------------------------------------------
(* Lazy migration of a stored record (storage.ts, migrateTicket).          *)

\* A table that takes an old type to the current one in two steps
TypeMigrationInSteps ==
    [epic |-> "story", story |-> "feature", task |-> "chore",
     bug |-> "bugfix", idea |-> "research", research |-> "experiment"]
TYPE_MIGRATION ==
    [epic |-> "feature", story |-> "feature", task |-> "chore",
     bug |-> "bugfix", idea |-> "experiment", research |-> "experiment"]

RemovedFields ==
    {"description", "acceptanceCriteria", "progressNotes", "rejectionCount",
     "researchNotes", "estimate", "parentId", "labels", "tags", "blockedBy",
     "assignee", "staleAt"}

\* A JavaScript value's truthiness, for a text or a list: defined and not empty
Truthy(o) == IsSome(o) /\ Val(o) # <<>>

\* ac.join("\n")
RECURSIVE Join(_)
Join(lines) ==
    IF lines = <<>> THEN <<>>
    ELSE IF Len(lines) = 1 THEN lines[1]
    ELSE lines[1] \o <<"\n">> \o Join(Tail(lines))

\* progressNotes is stored either as a list of notes or, by the older tool,
\* as one plain string: [list |-> BOOLEAN, notes |-> the list, or <<the text>>]
NotesLen(pn) == IF IsSome(pn) THEN Len(Val(pn).notes) ELSE 0

\* pn.map(...) on a non-empty plain string: "pn.map is not a function"
migrateThrows(raw) ==
    /\ NotesLen(Get(raw, "progressNotes")) # 0
    /\ ~Truthy(Get(raw, "comments"))
    /\ ~raw["progressNotes"].list

\* The steps of migrateTicket, in the order of the code
MigrateType(t) ==
    IF Has(t, "type") /\ t["type"] \in DOMAIN TYPE_MIGRATION
    THEN SetKey(t, "type", Some(TYPE_MIGRATION[t["type"]]))
    ELSE t
\* A migration that leaves the status as stored
MigrateStatusKept(t) == t
MigrateStatus(t) ==
    IF Get(t, "status") = Some("blocked") THEN SetKey(t, "status", Some("backlog")) ELSE t
MigrateIntent(t) ==
    IF Truthy(Get(t, "description")) /\ ~Truthy(Get(t, "intent"))
    THEN SetKey(t, "intent", Get(t, "description"))
    ELSE t
MigrateSignal(t) ==
    IF Truthy(Get(t, "acceptanceCriteria")) /\ ~Truthy(Get(t, "acceptanceSignal"))
    THEN SetKey(t, "acceptanceSignal", Some(Join(t["acceptanceCriteria"])))
    ELSE t
\* createdAt: ticket.updatedAt ?? ticket.createdAt
NoteComment(text, stamp) ==
    SetKey([author |-> "system", text |-> text], "createdAt", stamp)
NoteComments(notes, stamp) == [i \in 1..Len(notes) |-> NoteComment(notes[i], stamp)]
\* Notes turned into comments on every read, after the comments there are
MigrateNotesAgain(t) ==
    IF NotesLen(Get(t, "progressNotes")) # 0
    THEN SetKey(t, "comments",
           Some((IF Has(t, "comments") THEN t["comments"] ELSE <<>>)
                  \o NoteComments(t["progressNotes"].notes, Get(t, "updatedAt"))))
    ELSE t
MigrateNotes(t) ==
    IF NotesLen(Get(t, "progressNotes")) # 0 /\ ~Truthy(Get(t, "comments"))
    THEN SetKey(t, "comments",
           Some(NoteComments(t["progressNotes"].notes,
                             IF Has(t, "updatedAt") THEN Get(t, "updatedAt")
                             ELSE Get(t, "createdAt"))))
    ELSE t
\* A clean-up that forgets the last field of the list
StripRemovedButLast(t) == [k \in DOMAIN t \ (RemovedFields \ {"staleAt"}) |-> t[k]]
StripRemoved(t) == [k \in DOMAIN t \ RemovedFields |-> t[k]]

migrateTicket(raw) ==
    StripRemoved(MigrateNotes(MigrateSignal(MigrateIntent(MigrateStatus(MigrateType(raw))))))

-----------------------------------------------------------------------------
(* The storage layer: files, load, save, list.                             *)

WriteFile(fs, name, content) ==
    [x \in DOMAIN fs \cup {name} |-> IF x = name THEN content ELSE fs[x]]
\* An unlink that leaves the file where it is
RemoveNothing(fs, name) == fs
RemoveFile(fs, name) == [x \in DOMAIN fs \ {name} |-> fs[x]]

\* What a file holds is the record its text decodes to.  Two more cases:
\* a text yaml.parse rejects (parseYamlSafe then gives the fallback, null), and
\* a file whose read fails with an I/O error other than ENOENT
Undecodable == [yamlError |-> TRUE]
Unreadable == [ioError |-> "EACCES"]
IoErrorMsg == <<"EACCES: permission denied">>

\* loadTicket: None when the file is absent or does not decode, else the
\* migrated record
loadTicket(fs, ticketId) ==
    IF ticketPath(ticketId) \in DOMAIN fs /\ ~Has(fs[ticketPath(ticketId)], "yamlError")
    THEN Some(migrateTicket(fs[ticketPath(ticketId)]))
    ELSE None

\* saveTicket: the file is named after the record's own id
saveTicket(fs, ticket) == WriteFile(fs, ticketPath(ticket["id"]), ticket)

\* listTickets: the files that decode to a record with an id and migrate
\* without an exception, each migrated
ListedFiles(fs) == {f \in DOMAIN fs : Has(fs[f], "id") /\ ~migrateThrows(fs[f])}
listTickets(fs) == [f \in ListedFiles(fs) |-> migrateTicket(fs[f])]

-----------------------------------------------------------------------------
(* What each lifecycle operation computes (storage.ts).                    *)

Call(op, args, ok, err, value) ==
    [op |-> op, args |-> args, ok |-> ok, err |-> err, value |-> value]

PadWidth == 3

\* A board saved without advancing its counter
CreateBoardSameNumber(b, tb) == [b EXCEPT !.updatedAt = tb]

\* createTicket: the id, the board with its counter advanced, the record
CreateId(b) ==
    b.settings.ticketPrefix \o <<"-">>
        \o padStart(NumToStr(b.settings.nextTicketNumber), PadWidth, "0")
CreateBoard(b, tb) ==
    [b EXCEPT !.settings.nextTicketNumber = @ + 1, !.updatedAt = tb]
\* A record that takes the type "feature" whatever the input carries
CreateRecordFeature(b, input, t) ==
    Spread(<<>>,
           [id |-> Some(CreateId(b)),
            title |-> Get(input, "title"),
            type |-> Some("feature"),
            status |-> Some("backlog"),
            intent |-> Get(input, "intent"),
            acceptanceSignal |-> Get(input, "acceptanceSignal"),
            comments |-> Some(<<>>),
            createdAt |-> Some(t),
            updatedAt |-> Some(t),
            statusChangedAt |-> Some(t)])
CreateRecord(b, input, t) ==
    Spread(<<>>,
           [id |-> Some(CreateId(b)),
            title |-> Get(input, "title"),
            type |-> IF Has(input, "type") THEN Get(input, "type") ELSE Some("feature"),
            status |-> Some("backlog"),
            intent |-> Get(input, "intent"),
            acceptanceSignal |-> Get(input, "acceptanceSignal"),
            comments |-> Some(<<>>),
            createdAt |-> Some(t),
            updatedAt |-> Some(t),
            statusChangedAt |-> Some(t)])

\* { ...ticket, ...input, updatedAt: now() }: the patch is not overridden
UpdateRecordPatchWins(ticket, input, t) ==
    Spread(Spread(ticket, input), [updatedAt |-> Some(t)])

\* updateTicket: { ...ticket, ...input, id, status, createdAt, updatedAt: now() }
UpdateRecord(ticket, input, t) ==
    Spread(Spread(ticket, input),
           [id |-> Get(ticket, "id"),
            status |-> Get(ticket, "status"),
            createdAt |-> Get(ticket, "createdAt"),
            updatedAt |-> Some(t)])

\* moveTicket's WIP check: the listed tickets in the target column whose id is
\* not the ticketId the caller passed
InColumn(list, toStatus, ticketId) ==
    {f \in DOMAIN list : Get(list[f], "status") = Some(toStatus)
                           /\ Get(list[f], "id") # Some(ticketId)}
\* The check with > in place of >=: it lets one ticket too many in
WipExceededAbove(b, list, toStatus, ticketId) ==
    /\ HasWipLimit(FindColumn(b, toStatus))
    /\ Cardinality(InColumn(list, toStatus, ticketId)) > WipLimitOf(FindColumn(b, toStatus))
WipExceeded(b, list, toStatus, ticketId) ==
    /\ HasWipLimit(FindColumn(b, toStatus))
    /\ Cardinality(InColumn(list, toStatus, ticketId)) >= WipLimitOf(FindColumn(b, toStatus))
WipError(b, list, toStatus, ticketId) ==
    <<"WIP limit reached for ", toStatus, ": ">>
        \o NumToStr(Cardinality(InColumn(list, toStatus, ticketId)))
        \o <<"/">> \o NumToStr(WipLimitOf(FindColumn(b, toStatus)))

\* ticket.comments ?? []
CommentsOrEmpty(ticket) == IF Has(ticket, "comments") THEN ticket["comments"] ELSE <<>>
\* A comment pushed for every note that is given, the empty one too
MoveCommentsAnyNote(ticket, toStatus, note, t) ==
    IF IsSome(note)
    THEN Append(CommentsOrEmpty(ticket),
                [author |-> "system",
                 text |-> <<"Moved to ", toStatus, ": ">> \o Val(note),
                 createdAt |-> t])
    ELSE CommentsOrEmpty(ticket)
MoveComments(ticket, toStatus, note, t) ==
    IF Truthy(note)
    THEN Append(CommentsOrEmpty(ticket),
                [author |-> "system",
                 text |-> <<"Moved to ", toStatus, ": ">> \o Val(note),
                 createdAt |-> t])
    ELSE CommentsOrEmpty(ticket)
\* A codeLocation derived afresh on every move into in-progress
MoveCodeLocationAfresh(ticket, toStatus) ==
    IF toStatus = "in-progress" /\ Has(ticket, "id") /\ Has(ticket, "title")
    THEN Some(deriveCodeLocation(ticket["id"], ticket["title"]))
    ELSE Get(ticket, "codeLocation")
MoveCodeLocation(ticket, toStatus) ==
    IF toStatus = "in-progress" /\ ~Has(ticket, "codeLocation")
    THEN Some(deriveCodeLocation(ticket["id"], ticket["title"]))
    ELSE Get(ticket, "codeLocation")
\* deriveCodeLocation on a record with no title (or id): title.toLowerCase()
\* throws a TypeError
DeriveThrows(ticket, toStatus) ==
    /\ toStatus = "in-progress"
    /\ ~Has(ticket, "codeLocation")
    /\ (~Has(ticket, "title") \/ ~Has(ticket, "id"))
DeriveErrorMsg == <<"Cannot read properties of undefined (reading 'toLowerCase')">>
\* A record that keeps the completedAt of an earlier completion
MoveRecordFirstCompletion(ticket, toStatus, note, t) ==
    Spread(ticket,
           [status |-> Some(toStatus),
            updatedAt |-> Some(t),
            statusChangedAt |-> Some(t),
            completedAt |-> IF toStatus = "done" /\ ~Has(ticket, "completedAt")
                            THEN Some(t) ELSE Get(ticket, "completedAt"),
            comments |-> Some(MoveComments(ticket, toStatus, note, t)),
            codeLocation |-> MoveCodeLocation(ticket, toStatus)])

\* { ...ticket, status, updatedAt, statusChangedAt, completedAt, comments, codeLocation }
MoveRecord(ticket, toStatus, note, t) ==
    Spread(ticket,
           [status |-> Some(toStatus),
            updatedAt |-> Some(t),
            statusChangedAt |-> Some(t),
            completedAt |-> IF toStatus = "done" THEN Some(t) ELSE Get(ticket, "completedAt"),
            comments |-> Some(MoveComments(ticket, toStatus, note, t)),
            codeLocation |-> MoveCodeLocation(ticket, toStatus)])

\* addComment: { ...ticket, comments: [...comments, new], updatedAt }
CommentRecord(ticket, author, text, t) ==
    Spread(ticket,
           [comments |-> Some(Append(CommentsOrEmpty(ticket),
                                     [author |-> author, text |-> text, createdAt |-> t])),
            updatedAt |-> Some(t)])

NotFound(ticketId) == <<"Ticket not found: ">> \o ticketId
NotInitialized == <<"Board not initialized", ". Run board_init first.">>
MoveNotInitialized == <<"Board not initialized">>

TypeErrorMsg == <<"pn.map is not a function">>
loadTicketThrows(fs, ticketId) ==
    /\ ticketPath(ticketId) \in DOMAIN fs
    /\ \/ migrateThrows(fs[ticketPath(ticketId)])
       \/ Has(fs[ticketPath(ticketId)], "ioError")
loadTicketError(fs, ticketId) ==
    IF Has(fs[ticketPath(ticketId)], "ioError") THEN IoErrorMsg ELSE TypeErrorMsg

\* loadBoard: None when board.yaml is absent or does not decode
loadBoard(b) == IF IsSome(b) /\ ~Has(Val(b), "yamlError") THEN b ELSE None

\* listTickets on the workspace: [] when board/tickets does not exist
listDir(d, fs) == IF d THEN listTickets(fs) ELSE <<>>

-----------------------------------------------------------------------------
(* The operations, each run to completion (no other call interleaved).     *)

NoProcs == <<>>

Init ==
    /\ board = None
    /\ dirs = FALSE
    /\ files = <<>>
    /\ clock = 0
    /\ last = Call("none", <<>>, TRUE, <<>>, None)
    /\ issued = <<>>
    /\ procs = NoProcs

\* Time passes between calls; now() reads the clock
Tick ==
    /\ clock < MaxClock
    /\ clock' = clock + 1
    /\ UNCHANGED <<board, dirs, files, last, issued, procs>>

InitFresh(args, fresh) ==
    /\ board' = Some(fresh)
    /\ dirs' = TRUE
    /\ last' = Call("initBoard", args, TRUE, <<>>, Some(fresh))
\* An initBoard that writes a fresh board whether or not one is stored
initBoardOverwrite(projectId, projectName) ==
    /\ InitFresh([projectId |-> projectId, projectName |-> projectName],
                 NewBoard(projectId, projectName, clock))
    /\ UNCHANGED <<files, clock, issued, procs>>

initBoard(projectId, projectName) ==
    /\ IF IsSome(loadBoard(board))
       THEN /\ last' = Call("initBoard", [projectId |-> projectId, projectName |-> projectName],
                            TRUE, <<>>, board)
            /\ UNCHANGED <<board, dirs>>
       ELSE InitFresh([projectId |-> projectId, projectName |-> projectName],
                      NewBoard(projectId, projectName, clock))
    /\ UNCHANGED <<files, clock, issued, procs>>

\* (board.updatedAt and the ticket's timestamps come from two now() calls in
\* one synchronous block: both read t)
CreateSaved(args, b, ticket, t) ==
    /\ board' = Some(CreateBoard(b, t))
    /\ dirs' = TRUE
    /\ files' = saveTicket(files, ticket)
    /\ issued' = Append(issued, ticket["id"])
    /\ last' = Call("createTicket", args, TRUE, <<>>, Some(ticket))
\* A createTicket that, finding no board, goes on with the default one
createTicketUnguarded(input) ==
    /\ IF ~IsSome(loadBoard(board))
       THEN CreateSaved([input |-> input], NewBoard(<<>>, "", clock),
                        CreateRecord(NewBoard(<<>>, "", clock), input, clock), clock)
       ELSE CreateSaved([input |-> input], Val(board), CreateRecord(Val(board), input, clock), clock)
    /\ UNCHANGED <<clock, procs>>

createTicket(input) ==
    /\ IF ~IsSome(loadBoard(board))
       THEN /\ last' = Call("createTicket", [input |-> input], FALSE, NotInitialized, None)
            /\ UNCHANGED <<board, dirs, files, issued>>
       ELSE CreateSaved([input |-> input], Val(board), CreateRecord(Val(board), input, clock), clock)
    /\ UNCHANGED <<clock, procs>>

\* A call that fails: nothing is written
Fails(op, args, err) ==
    /\ last' = Call(op, args, FALSE, err, None)
    /\ UNCHANGED <<dirs, files>>
\* A call that saves the record it built and returns it
\* (a record with no id cannot be saved: sanitizeId(undefined) throws)
SaveErrorMsg == <<"Cannot read properties of undefined (reading 'replace')">>
Saves(op, args, updated) ==
    IF ~Has(updated, "id") THEN Fails(op, args, SaveErrorMsg)
    ELSE /\ dirs' = TRUE
         /\ files' = saveTicket(files, updated)
         /\ last' = Call(op, args, TRUE, <<>>, Some(updated))

UpdateLoaded(args, ticket, t) ==
    IF loadTicketThrows(files, args.ticketId) THEN Fails("updateTicket", args, loadTicketError(files, args.ticketId))
    ELSE IF ~IsSome(ticket) THEN Fails("updateTicket", args, NotFound(args.ticketId))
    ELSE Saves("updateTicket", args, UpdateRecord(Val(ticket), args.input, t))
updateTicket(ticketId, input) ==
    /\ UpdateLoaded([ticketId |-> ticketId, input |-> input], loadTicket(files, ticketId), clock)
    /\ UNCHANGED <<board, clock, issued, procs>>

MoveLoaded(args, ticket, list, t) ==
    IF loadTicketThrows(files, args.ticketId) THEN Fails("moveTicket", args, loadTicketError(files, args.ticketId))
    ELSE IF ~IsSome(ticket) THEN Fails("moveTicket", args, NotFound(args.ticketId))
    ELSE IF ~IsSome(loadBoard(board)) THEN Fails("moveTicket", args, MoveNotInitialized)
    ELSE IF WipExceeded(Val(board), list, args.toStatus, args.ticketId)
    THEN Fails("moveTicket", args, WipError(Val(board), list, args.toStatus, args.ticketId))
    ELSE IF DeriveThrows(Val(ticket), args.toStatus)
    THEN Fails("moveTicket", args, DeriveErrorMsg)
    ELSE Saves("moveTicket", args, MoveRecord(Val(ticket), args.toStatus, args.note, t))
moveTicket(ticketId, toStatus, note) ==
    /\ MoveLoaded([ticketId |-> ticketId, toStatus |-> toStatus, note |-> note],
                  loadTicket(files, ticketId), listDir(dirs, files), clock)
    /\ UNCHANGED <<board, clock, issued, procs>>

CommentLoaded(args, ticket, t) ==
    IF loadTicketThrows(files, args.ticketId) THEN Fails("addComment", args, loadTicketError(files, args.ticketId))
    ELSE IF ~IsSome(ticket) THEN Fails("addComment", args, NotFound(args.ticketId))
    ELSE Saves("addComment", args, CommentRecord(Val(ticket), args.author, args.text, t))
addComment(ticketId, author, text) ==
    /\ CommentLoaded([ticketId |-> ticketId, author |-> author, text |-> text],
                     loadTicket(files, ticketId), clock)
    /\ UNCHANGED <<board, clock, issued, procs>>

\* The board.update request: a comment that is not blank is added first, in
\* the agent's name; then the four
\* fields go to updateTicket as one object, an omitted field as a property
\* with the value undefined; the board tool's update action builds the same
\* object from its parameters
UpdatePatch(p) ==
    [title |-> Get(p, "title"), type |-> Get(p, "ticketType"),
     intent |-> Get(p, "intent"), acceptanceSignal |-> Get(p, "acceptanceSignal")]
hasFieldUpdates(p) ==
    Truthy(Get(p, "title")) \/ Has(p, "ticketType")
        \/ Truthy(Get(p, "intent")) \/ Truthy(Get(p, "acceptanceSignal"))
\* String.prototype.trim on a text whose blank fragments are " "
RECURSIVE trimStart(_)
trimStart(text) ==
    IF text # <<>> /\ Head(text) = " " THEN trimStart(Tail(text)) ELSE text
RECURSIVE trimEnd(_)
trimEnd(text) ==
    IF text # <<>> /\ text[Len(text)] = " " THEN trimEnd(SubSeq(text, 1, Len(text) - 1))
    ELSE text
trim(text) == trimEnd(trimStart(text))
\* p.comment?.trim()
HasComment(p) == Has(p, "comment") /\ trim(p["comment"]) # <<>>
\* resolveAgentInfo(cfg, p.sessionKey).agentName
AgentName == "agent"
\* The files after addComment(ws, ticketId, agentName, p.comment.trim())
Commented(fs, ticketId, p, t) ==
    saveTicket(fs, CommentRecord(Val(loadTicket(fs, ticketId)), AgentName, trim(p["comment"]), t))
\* The ticket the request ends with: updateTicket's, or the one loaded
Updated(fs, ticketId, p, t) ==
    IF hasFieldUpdates(p)
    THEN UpdateRecord(Val(loadTicket(fs, ticketId)), UpdatePatch(p), t)
    ELSE Val(loadTicket(fs, ticketId))
\* A request with a comment: addComment throws on a missing ticket and the
\* handler answers with the error's message
boardUpdateCommented(args, t) ==
    IF loadTicketThrows(files, args.ticketId)
    THEN Fails("board.update", args, loadTicketError(files, args.ticketId))
    ELSE IF ~IsSome(loadTicket(files, args.ticketId))
    THEN Fails("board.update", args, NotFound(args.ticketId))
    ELSE IF ~Has(Val(loadTicket(files, args.ticketId)), "id")
    THEN Fails("board.update", args, SaveErrorMsg)
    ELSE /\ dirs' = TRUE
         /\ files' = saveTicket(Commented(files, args.ticketId, args.input, t),
                                Updated(Commented(files, args.ticketId, args.input, t),
                                        args.ticketId, args.input, t))
         /\ last' = Call("board.update", args, TRUE, <<>>,
                         Some(Updated(Commented(files, args.ticketId, args.input, t),
                                      args.ticketId, args.input, t)))
boardUpdate(ticketId, p) ==
    IF HasComment(p)
    THEN /\ boardUpdateCommented([ticketId |-> ticketId, input |-> p], clock)
         /\ UNCHANGED <<board, clock, issued, procs>>
    ELSE IF hasFieldUpdates(p)
    THEN updateTicket(ticketId, UpdatePatch(p))
    ELSE /\ IF loadTicketThrows(files, ticketId)
            THEN last' = Call("board.update", [ticketId |-> ticketId, input |-> p],
                              FALSE, loadTicketError(files, ticketId), None)
            ELSE last' = Call("board.update", [ticketId |-> ticketId, input |-> p],
                              TRUE, <<>>, loadTicket(files, ticketId))
         /\ UNCHANGED <<board, dirs, files, clock, issued, procs>>

\* deleteTicket: fs.unlink; false when there is no such file
deleteTicket(ticketId) ==
    /\ files' = IF ticketPath(ticketId) \in DOMAIN files
                THEN RemoveFile(files, ticketPath(ticketId))
                ELSE files
    /\ last' = Call("deleteTicket", [ticketId |-> ticketId], TRUE, <<>>,
                    Some(ticketPath(ticketId) \in DOMAIN files))
    /\ UNCHANGED <<board, dirs, clock, issued, procs>>

-----------------------------------------------------------------------------
(* The callers' inputs.                                                    *)

ProjA == <<"p","r","o","j","1">>
ProjB == <<"a",".","b">>
TitleFix == <<"F","i","x"," ","b","u","g">>
TitleAdd == <<"A","d","d","!">>
IntentText == <<"Build the feature">>

\* The ids a caller may pass: every id a board of one of the projects can
\* issue up to number max, as issued and in lower case
IssuableIds(projects, max) ==
    { slice(sanitizeId(p), PrefixLen) \o <<"-">> \o padStart(NumToStr(n), PadWidth, "0") :
        p \in projects, n \in 1..max }
CallerIds(projects, max) ==
    IssuableIds(projects, max) \cup {toLowerCase(id) : id \in IssuableIds(projects, max)}

CommentsOf(f) == IF Has(files[f], "comments") THEN files[f]["comments"] ELSE <<>>
RoomForComment(ticketId) ==
    ticketPath(ticketId) \in DOMAIN files
        => Len(CommentsOf(ticketPath(ticketId))) < MaxComments
RoomForTicket(max) == Len(issued) < max

-----------------------------------------------------------------------------
(* Spec: the life of a ticket, field by field, with the clock running.     *)

LifeIds == CallerIds({ProjA}, MaxLife)
LifeCreates == { [title |-> TitleAdd, type |-> "bugfix", intent |-> IntentText] }
\* updateTicket patches: a property maps to Some(value), or to None when the
\* caller passes it with the value undefined
LifePatches ==
    { [title |-> Some(TitleFix)],
      [status |-> Some("done")],
      [id |-> Some(<<"X">>), createdAt |-> Some(MaxClock + 1)] }
\* board.update requests: only intent given, and nothing given
LifeRequests == { [intent |-> IntentText], <<>> }
\* column ids, and two strings that name no column
LifeStatuses == {"backlog", "in-progress", "done", "archived", "blocked"}

Next ==
    \/ Tick
    \/ initBoard(ProjA, "Proj")
    \/ \E i \in LifeCreates : RoomForTicket(MaxLife) /\ createTicket(i)
    \/ \E id \in LifeIds, i \in LifePatches : updateTicket(id, i)
    \/ \E id \in LifeIds, p \in LifeRequests : boardUpdate(id, p)
    \/ \E id \in LifeIds, to \in LifeStatuses : moveTicket(id, to, None)
    \/ \E id \in LifeIds : RoomForComment(id) /\ addComment(id, "agent", <<"note">>)
    \/ \E id \in LifeIds : deleteTicket(id)

Spec == Init /\ [][Next]_vars

-----------------------------------------------------------------------------
(* SpecWip: several tickets on an initialized board, moved between the     *)
(* unbounded backlog and the in-progress column (wipLimit 2).              *)

InitWip ==
    /\ board = Some(NewBoard(ProjA, "Proj", 0))
    /\ dirs = TRUE
    /\ files = <<>>
    /\ clock = 0
    /\ last = Call("initBoard", [projectId |-> ProjA, projectName |-> "Proj"], TRUE, <<>>,
                   Some(NewBoard(ProjA, "Proj", 0)))
    /\ issued = <<>>
    /\ procs = NoProcs

WipIds == CallerIds({ProjA}, MaxTickets)
WipStatuses == {"backlog", "in-progress"}
NoComments == \A f \in DOMAIN files : CommentsOf(f) = <<>>

NextWip ==
    \/ RoomForTicket(MaxTickets) /\ createTicket([title |-> TitleFix])
    \/ \E id \in WipIds, to \in WipStatuses : moveTicket(id, to, None)
    \/ \E id \in WipIds : updateTicket(id, [status |-> Some("in-progress")])
    \/ \E id \in WipIds : NoComments /\ addComment(id, "agent", <<"note">>)
    \/ \E id \in WipIds : deleteTicket(id)

SpecWip == InitWip /\ [][NextWip]_vars

\* A step taken by a call of op (no call moves the clock)
Called(op) == last'.op = op /\ clock' = clock

\* The tickets a listing shows in column id
Held(id) == {f \in DOMAIN listDir(dirs, files) : Get(listDir(dirs, files)[f], "status") = Some(id)}

\* C1: with the calls run one at a time from a fresh board, every column with
\* a non-null wipLimit holds at most wipLimit tickets, in every reachable state
C1_WipLimitKept ==
    IsSome(board) =>
        \A i \in DOMAIN Val(board).columns :
            IsSome(Val(board).columns[i].wipLimit) =>
                Cardinality(Held(Val(board).columns[i].id)) <= Val(Val(board).columns[i].wipLimit)

\* in-progress is full and a move of one more ticket into it was refused
C1_Witness ==
    /\ Cardinality(Held("in-progress")) = WipInProgress
    /\ last.op = "moveTicket" /\ ~last.ok
    /\ last.args.toStatus = "in-progress"
    /\ ticketPath(last.args.ticketId) \in DOMAIN files
    /\ ticketPath(last.args.ticketId) \notin Held("in-progress")

\* The tickets other than the one ticketId names that a listing shows in
\* column toStatus
Others(toStatus, ticketId) == Held(toStatus) \ {ticketPath(ticketId)}

\* The capacity error for count tickets against limit
CapacityError(toStatus, count, limit) ==
    <<"WIP limit reached for ", toStatus, ": ">> \o NumToStr(count) \o <<"/">> \o NumToStr(limit)

MoveRefused(args, limit) ==
    /\ ~last'.ok
    /\ last'.err = CapacityError(args.toStatus, Cardinality(Others(args.toStatus, args.ticketId)), limit)
    /\ files' = files
MoveDone(args, path) ==
    /\ last'.ok
    /\ path \in DOMAIN files'
    /\ Get(files'[path], "status") = Some(args.toStatus)
    /\ Get(files'[path], "statusChangedAt") = Some(clock)
    /\ Get(files'[path], "updatedAt") = Some(clock)
MoveOutcome(args, limit) ==
    IF Cardinality(Others(args.toStatus, args.ticketId)) >= limit
    THEN MoveRefused(args, limit)
    ELSE MoveDone(args, ticketPath(args.ticketId))

\* C2: moveTicket of a stored ticket T into a column with WIP limit L is
\* refused with a capacity error carrying count and limit, leaving the store
\* unchanged, when L or more other tickets are in the column, and otherwise
\* succeeds, setting T's status to the target and statusChangedAt and
\* updatedAt to the time of the move
C2_MoveAgainstLimit ==
    [][(/\ Called("moveTicket")
        /\ IsSome(board)
        /\ IsSome(loadTicket(files, last'.args.ticketId))
        /\ IsSome(FindColumn(Val(board), last'.args.toStatus))
        /\ IsSome(Val(FindColumn(Val(board), last'.args.toStatus)).wipLimit))
       => MoveOutcome(last'.args, WipLimitOf(FindColumn(Val(board), last'.args.toStatus)))]_vars

-----------------------------------------------------------------------------
(* SpecRace: two moveTicket calls in flight at once.  A call gives up      *)
(* control at each await: loadTicket, loadBoard, listTickets, saveTicket;  *)
(* what lies between two awaits runs without interruption.                 *)

Procs == {1, 2}

\* A call's frame: where it stands, its arguments, and its local variables
\* ticket, board, inColumn.length (seen) and updated
Frame(pc, args, ticket, b, seen, updated, result) ==
    [pc |-> pc, args |-> args, ticket |-> ticket, board |-> b, seen |-> seen,
     updated |-> updated, result |-> result]
NoArgs == [ticketId |-> <<>>, toStatus |-> "", note |-> None]
IdleFrame == Frame("idle", NoArgs, None, None, 0, None, "none")

\* The board and store after three createTicket calls and a move of the
\* first ticket into in-progress, which then holds wipLimit - 1 tickets
RaceBoard0 == NewBoard(ProjA, "Proj", 0)
RaceBoard1 == CreateBoard(RaceBoard0, 0)
RaceBoard2 == CreateBoard(RaceBoard1, 0)
RaceBoard3 == CreateBoard(RaceBoard2, 0)
RaceTicket1 ==
    MoveRecord(CreateRecord(RaceBoard0, [title |-> TitleFix], 0), "in-progress", None, 0)
RaceTicket2 == CreateRecord(RaceBoard1, [title |-> TitleFix], 0)
RaceTicket3 == CreateRecord(RaceBoard2, [title |-> TitleFix], 0)
RaceFiles == saveTicket(saveTicket(saveTicket(<<>>, RaceTicket1), RaceTicket2), RaceTicket3)

InitRace ==
    /\ board = Some(RaceBoard3)
    /\ dirs = TRUE
    /\ files = RaceFiles
    /\ clock = 0
    /\ last = Call("moveTicket",
                   [ticketId |-> RaceTicket1["id"], toStatus |-> "in-progress", note |-> None],
                   TRUE, <<>>, Some(RaceTicket1))
    /\ issued = <<RaceTicket1["id"], RaceTicket2["id"], RaceTicket3["id"]>>
    /\ procs = [p \in Procs |-> IdleFrame]

\* The call returns or throws: its frame keeps what it saw
Returns(p, result, ok, err, value) ==
    /\ procs' = [procs EXCEPT ![p].pc = "idle", ![p].result = result]
    /\ last' = Call("moveTicket", procs[p].args, ok, err, value)

MoveStart(p, ticketId, toStatus) ==
    /\ procs[p].pc = "idle"
    /\ procs' = [procs EXCEPT ![p] =
          Frame("load", [ticketId |-> ticketId, toStatus |-> toStatus, note |-> None],
                None, None, 0, None, "none")]
    /\ UNCHANGED <<board, dirs, files, clock, last, issued>>

\* const ticket = await loadTicket(...); if (!ticket) throw
MoveLoad(p) ==
    /\ procs[p].pc = "load"
    /\ IF loadTicketThrows(files, procs[p].args.ticketId)
       THEN Returns(p, "failed", FALSE, TypeErrorMsg, None)
       ELSE IF ~IsSome(loadTicket(files, procs[p].args.ticketId))
       THEN Returns(p, "failed", FALSE, NotFound(procs[p].args.ticketId), None)
       ELSE /\ procs' = [procs EXCEPT ![p].pc = "board",
                                      ![p].ticket = loadTicket(files, procs[p].args.ticketId)]
            /\ UNCHANGED last
    /\ UNCHANGED <<board, dirs, files, clock, issued>>

\* const board = await loadBoard(...); if (!board) throw
MoveBoard(p) ==
    /\ procs[p].pc = "board"
    /\ IF ~IsSome(board)
       THEN Returns(p, "failed", FALSE, MoveNotInitialized, None)
       ELSE /\ procs' = [procs EXCEPT ![p].pc = "check", ![p].board = board]
            /\ UNCHANGED last
    /\ UNCHANGED <<board, dirs, files, clock, issued>>

\* const tickets = await listTickets(...); the check; then, with no await in
\* between, the timestamp and the record to save
MoveCheck(p) ==
    /\ procs[p].pc = "check"
    /\ IF WipExceeded(Val(procs[p].board), listDir(dirs, files),
                      procs[p].args.toStatus, procs[p].args.ticketId)
       THEN Returns(p, "failed", FALSE,
                    WipError(Val(procs[p].board), listDir(dirs, files),
                             procs[p].args.toStatus, procs[p].args.ticketId), None)
       ELSE IF DeriveThrows(Val(procs[p].ticket), procs[p].args.toStatus)
       THEN Returns(p, "failed", FALSE, DeriveErrorMsg, None)
       ELSE /\ procs' = [procs EXCEPT
                  ![p].pc = "save",
                  ![p].seen = Cardinality(InColumn(listDir(dirs, files), procs[p].args.toStatus,
                                                   procs[p].args.ticketId)),
                  ![p].updated = Some(MoveRecord(Val(procs[p].ticket), procs[p].args.toStatus,
                                                 procs[p].args.note, clock))]
            /\ UNCHANGED last
    /\ UNCHANGED <<board, dirs, files, clock, issued>>

\* A save that looked at the column again before writing (the code does not)
MoveSaveRechecked(p) ==
    /\ procs[p].pc = "save"
    /\ IF WipExceeded(Val(procs[p].board), listDir(dirs, files),
                      procs[p].args.toStatus, procs[p].args.ticketId)
       THEN /\ Returns(p, "failed", FALSE,
                       WipError(Val(procs[p].board), listDir(dirs, files),
                                procs[p].args.toStatus, procs[p].args.ticketId), None)
            /\ UNCHANGED <<dirs, files>>
       ELSE /\ dirs' = TRUE
            /\ files' = saveTicket(files, Val(procs[p].updated))
            /\ Returns(p, "moved", TRUE, <<>>, procs[p].updated)
    /\ UNCHANGED <<board, clock, issued>>

\* await saveTicket(workspaceDir, updated); return updated
MoveSave(p) ==
    /\ procs[p].pc = "save"
    /\ dirs' = TRUE
    /\ files' = saveTicket(files, Val(procs[p].updated))
    /\ Returns(p, "moved", TRUE, <<>>, procs[p].updated)
    /\ UNCHANGED <<board, clock, issued>>

\* Each caller moves a ticket of its own between backlog and in-progress
RaceTicketOf(p) == IF p = 1 THEN RaceTicket2["id"] ELSE RaceTicket3["id"]

NextRace ==
    \/ \E p \in Procs, to \in WipStatuses : MoveStart(p, RaceTicketOf(p), to)
    \/ \E p \in Procs : MoveLoad(p)
    \/ \E p \in Procs : MoveBoard(p)
    \/ \E p \in Procs : MoveCheck(p)
    \/ \E p \in Procs : MoveSave(p)

SpecRace == InitRace /\ [][NextRace]_vars

\* Both calls have returned their moved ticket, each having moved a ticket of
\* its own into toStatus after counting seen tickets there
BothPassed(toStatus, seen) ==
    /\ \A p \in Procs :
          /\ procs[p].pc = "idle" /\ procs[p].result = "moved"
          /\ procs[p].args.toStatus = toStatus
          /\ procs[p].seen = seen
    /\ ticketPath(procs[1].args.ticketId) # ticketPath(procs[2].args.ticketId)

\* A call that has passed the check writes its ticket into the column,
\* whatever has been written there since it counted
PassedCallSaves(p) ==
    (procs[p].pc = "save" /\ procs'[p].pc = "idle") =>
        /\ procs'[p].result = "moved"
        /\ Held(procs[p].args.toStatus)' =
               Held(procs[p].args.toStatus) \cup {ticketPath(procs[p].args.ticketId)}

\* C3: the WIP check is check-then-act: nothing is looked at again between the
\* check and the write, so when two calls on different tickets have both
\* counted wipLimit - 1 tickets in in-progress, passed the check and saved,
\* the column holds wipLimit + 1 tickets
C3_BothPassOverLimit ==
    /\ [](BothPassed("in-progress", WipInProgress - 1) =>
             Cardinality(Held("in-progress")) = WipInProgress + 1)
    /\ [][\A p \in Procs : PassedCallSaves(p)]_vars

\* the interleaving exists: both calls passed on a count of wipLimit - 1 and
\* the column ends one over its limit
C3_Witness ==
    /\ BothPassed("in-progress", WipInProgress - 1)
    /\ Cardinality(Held("in-progress")) = WipInProgress + 1

-----------------------------------------------------------------------------
(* SpecIds: boards of two projects, initialized more than once, and the    *)
(* ids createTicket hands out while tickets are changed and deleted.       *)

IdsProjects == {ProjA, ProjB}
IdsNames == {"Proj", "Other"}
IdsAll == IssuableIds(IdsProjects, MaxIds)
IdsFirst == IssuableIds(IdsProjects, 1)

NextIds ==
    \/ \E p \in IdsProjects, n \in IdsNames : initBoard(p, n)
    \/ RoomForTicket(MaxIds) /\ createTicket([title |-> TitleFix])
    \/ \E id \in IdsAll : deleteTicket(id)
    \/ \E id \in IdsFirst : moveTicket(id, "done", None)
    \/ \E id \in IdsFirst, other \in IdsAll : updateTicket(id, [id |-> Some(other)])
    \/ \E id \in IdsFirst : NoComments /\ addComment(id, "agent", <<"note">>)

SpecIds == Init /\ [][NextIds]_vars

\* Reading a decimal numeral back into its number
DigitValue(c) == CHOOSE n \in 0..9 : DigitChars[n + 1] = c
RECURSIVE StrToNum(_)
StrToNum(ds) ==
    IF ds = <<>> THEN 0
    ELSE 10 * StrToNum(SubSeq(ds, 1, Len(ds) - 1)) + DigitValue(ds[Len(ds)])

\* The part of id after prefix and hyphen
NumeralOf(id, prefix) == SubSeq(id, Len(prefix) + 2, Len(id))
\* id reads <prefix>-<numeral of at least PadWidth digits>
WellFormedId(id, prefix) ==
    /\ Len(id) >= Len(prefix) + 1 + PadWidth
    /\ SubSeq(id, 1, Len(prefix)) = prefix
    /\ id[Len(prefix) + 1] = "-"
    /\ \A k \in DOMAIN NumeralOf(id, prefix) : IsDigit(NumeralOf(id, prefix)[k])
IdNumber(id, prefix) == StrToNum(NumeralOf(id, prefix))

\* The ids returned so far are well formed under prefix, strictly increasing
\* in number, and so pairwise different
IdsIncrease(prefix) ==
    /\ \A i \in DOMAIN issued : WellFormedId(issued[i], prefix)
    /\ \A i, j \in DOMAIN issued :
          i < j => IdNumber(issued[i], prefix) < IdNumber(issued[j], prefix)
    /\ \A i, j \in DOMAIN issued : i # j => issued[i] # issued[j]

\* C4: every id createTicket returns reads <prefix>-<number padded to at least
\* 3 digits>, its prefix the board's ticketPrefix, which is the first 4
\* characters of the sanitized projectId given at init; its number exceeds
\* that of every id returned before, and no id is returned twice, also after
\* deletions
C4_IdsFormedAndIncreasing ==
    /\ [](IsSome(board) => IdsIncrease(Val(board).settings.ticketPrefix))
    /\ [][(Called("initBoard") /\ ~IsSome(board)) =>
             Val(board').settings.ticketPrefix =
                 slice(sanitizeId(last'.args.projectId), PrefixLen)]_vars
    /\ [][Called("createTicket") /\ last'.ok =>
             /\ issued' = Append(issued, last'.value[1]["id"])
             /\ IdNumber(last'.value[1]["id"], Val(board).settings.ticketPrefix)
                    = Val(board).settings.nextTicketNumber]_vars

\* the first ticket was deleted and MaxIds ids have been returned since init
C4_Witness ==
    /\ Len(issued) = MaxIds
    /\ ticketPath(issued[1]) \notin DOMAIN files
    /\ last.op = "createTicket" /\ last.ok

\* C7: once a board is stored, initBoard with any projectId and projectName
\* returns the stored board and leaves board and tickets as they are
C7_LaterInitKeepsBoard ==
    [][(Called("initBoard") /\ IsSome(board)) =>
          /\ board' = board
          /\ last'.ok /\ last'.value = board
          /\ files' = files]_vars

\* initBoard was called for another project and name than the stored board's
\* and returned the stored board
C7_Witness ==
    /\ IsSome(board)
    /\ last.op = "initBoard"
    /\ sanitizeId(last.args.projectId) # Val(board).projectId
    /\ last.args.projectName # Val(board).projectName
    /\ last.value = board
    /\ Val(board).settings.nextTicketNumber > FirstTicketNumber

-----------------------------------------------------------------------------
(* SpecCrash: createTicket step by step, one caller, and a crash that may  *)
(* end the process between the write of the board and that of the ticket.  *)

\* createTicket's frame: where it stands, its input, and its locals board and
\* ticket
CreateFrame(pc, input, b, ticket) == [pc |-> pc, input |-> input, board |-> b, ticket |-> ticket]
IdleCreate == CreateFrame("idle", <<>>, None, None)

InitCrash ==
    /\ board = Some(NewBoard(ProjA, "Proj", 0))
    /\ dirs = TRUE
    /\ files = <<>>
    /\ clock = 0
    /\ last = Call("initBoard", [projectId |-> ProjA, projectName |-> "Proj"], TRUE, <<>>,
                   Some(NewBoard(ProjA, "Proj", 0)))
    /\ issued = <<>>
    /\ procs = IdleCreate

\* const board = await loadBoard(...); then, with no await in between, the
\* id, the counter's increment and the record
CreateLoad(input) ==
    /\ procs.pc = "idle"
    /\ IF ~IsSome(board)
       THEN /\ last' = Call("createTicket", [input |-> input], FALSE, NotInitialized, None)
            /\ UNCHANGED procs
       ELSE /\ procs' = CreateFrame("saveBoard", input, Some(CreateBoard(Val(board), clock)),
                                    Some(CreateRecord(Val(board), input, clock)))
            /\ UNCHANGED last
    /\ UNCHANGED <<board, dirs, files, clock, issued>>

\* A step that leaves the board file as it was
CreateSkipBoard ==
    /\ procs.pc = "saveBoard"
    /\ procs' = [procs EXCEPT !.pc = "saveTicket"]
    /\ UNCHANGED <<board, dirs, files, clock, last, issued>>

\* await saveBoard(workspaceDir, board)
CreateSaveBoard ==
    /\ procs.pc = "saveBoard"
    /\ board' = procs.board
    /\ dirs' = TRUE
    /\ procs' = [procs EXCEPT !.pc = "saveTicket"]
    /\ UNCHANGED <<files, clock, last, issued>>

\* await saveTicket(workspaceDir, ticket); return ticket
CreateSaveTicket ==
    /\ procs.pc = "saveTicket"
    /\ dirs' = TRUE
    /\ files' = saveTicket(files, Val(procs.ticket))
    /\ issued' = Append(issued, Val(procs.ticket)["id"])
    /\ last' = Call("createTicket", [input |-> procs.input], TRUE, <<>>, procs.ticket)
    /\ procs' = IdleCreate
    /\ UNCHANGED <<board, clock>>

\* The process dies in the middle of a call: its locals are lost, the files stay
Crash ==
    /\ procs.pc # "idle"
    /\ procs' = IdleCreate
    /\ last' = Call("crash", <<>>, FALSE, <<>>, None)
    /\ UNCHANGED <<board, dirs, files, clock, issued>>

\* The calls a caller makes between two createTicket calls
WhenIdle(call) == procs.pc = "idle" /\ call

CrashIds == IssuableIds({ProjA}, MaxIds)
CrashCreates == {[title |-> TitleFix], [title |-> TitleAdd, type |-> "bugfix"]}
RoomForNumber(max) == IsSome(board) => Val(board).settings.nextTicketNumber <= max

NextCrash ==
    \/ \E i \in CrashCreates : RoomForTicket(MaxIds) /\ RoomForNumber(MaxIds) /\ CreateLoad(i)
    \/ CreateSaveBoard
    \/ CreateSaveTicket
    \/ Crash
    \/ \E id \in CrashIds : WhenIdle(deleteTicket(id))
    \/ \E id \in CrashIds : WhenIdle(moveTicket(id, "done", None))

SpecCrash == InitCrash /\ [][NextCrash]_vars

\* Every ticket file carries a number below the stored counter
FilesBelowCounter(b) ==
    \A f \in DOMAIN files :
        /\ WellFormedId(files[f]["id"], b.settings.ticketPrefix)
        /\ IdNumber(files[f]["id"], b.settings.ticketPrefix) < b.settings.nextTicketNumber

\* C5: the board with the advanced counter is stored before the ticket file
\* is written, so in every reachable state, a crash between the two writes
\* included, every ticket file's number is below the stored nextTicketNumber;
\* a crash may leave a gap, but no id is written twice
C5_CounterAheadOfFiles ==
    /\ [](IsSome(board) => FilesBelowCounter(Val(board)))
    /\ [](IsSome(board) => IdsIncrease(Val(board).settings.ticketPrefix))
    /\ [][procs.pc = "saveTicket" /\ procs'.pc = "idle" /\ last'.op = "createTicket" =>
             IdNumber(Val(procs.ticket)["id"], Val(board).settings.ticketPrefix)
                 < Val(board).settings.nextTicketNumber]_vars

\* a crash between the two writes left a gap: number 1 was never written,
\* and a later createTicket wrote number 2
C5_Witness ==
    /\ procs.pc = "idle"
    /\ issued # <<>>
    /\ IdNumber(issued[1], Val(board).settings.ticketPrefix) = FirstTicketNumber + 1
    /\ ticketPath(issued[1]) \in DOMAIN files

-----------------------------------------------------------------------------
(* Properties of a ticket's life (Spec).                                    *)

ColumnIds(b) == {b.columns[i].id : i \in DOMAIN b.columns}

\* C6: after any sequence of createTicket, updateTicket, moveTicket with any
\* toStatus string, and addComment, the status of every stored ticket is one
\* of the board's configured column ids
C6_StatusIsColumn ==
    IsSome(board) =>
        \A f \in DOMAIN files :
            Has(files[f], "status") /\ files[f]["status"] \in ColumnIds(Val(board))

\* C8: createTicket in a workspace with no board fails with the 'Board not
\* initialized' error and writes nothing: no board file, no directory and no
\* ticket file exist afterwards
C8_CreateNeedsBoard ==
    [][(Called("createTicket") /\ ~IsSome(board)) =>
          /\ ~last'.ok
          /\ last'.err[1] = "Board not initialized"
          /\ last'.value = None
          /\ ~IsSome(board') /\ ~dirs' /\ files' = <<>>
          /\ issued' = issued]_vars

\* createTicket was called with no board stored, and failed
C8_Witness ==
    /\ last.op = "createTicket"
    /\ ~last.ok
    /\ ~IsSome(board) /\ ~dirs /\ files = <<>>

\* The stored record of file f keeps field k over the step
Keeps(f, k) == Get(files'[f], k) = Get(files[f], k)
\* The ticket loadTicket returns from file f keeps field k over the step
LoadedKeeps(f, k) == Get(migrateTicket(files'[f]), k) = Get(migrateTicket(files[f]), k)

\* C9: while a ticket is stored, its id and createdAt do not change under
\* updateTicket (whatever the patch), moveTicket and addComment, and the
\* status the ticket is loaded with is left unchanged by updateTicket, also
\* with a patch that carries status, and by addComment
C9_IdentityAndStatusKept ==
    [][\A f \in DOMAIN files \cap DOMAIN files' :
          /\ Keeps(f, "id") /\ Keeps(f, "createdAt")
          /\ LoadedKeeps(f, "id") /\ LoadedKeeps(f, "createdAt")
          /\ (Called("updateTicket") \/ Called("addComment")) => LoadedKeeps(f, "status")]_vars

\* updateTicket succeeded, at a later time than the ticket's creation, with a
\* patch carrying another id and createdAt, and after a move out of backlog
C9_Witness ==
    /\ last.op = "updateTicket" /\ last.ok
    /\ Has(last.args.input, "id") /\ Has(last.args.input, "createdAt")
    /\ \E f \in DOMAIN files :
          /\ files[f] = Val(last.value)
          /\ Some(files[f]["id"]) # last.args.input["id"]
          /\ Some(files[f]["createdAt"]) # last.args.input["createdAt"]
          /\ files[f]["updatedAt"] > files[f]["createdAt"]
          /\ files[f]["status"] = "in-progress"

\* The fields of a patch the caller gave a value for
Supplied(input) == {k \in DOMAIN input : IsSome(input[k])}

\* What updateTicket of a stored ticket may change: the supplied fields and
\* updatedAt, which is set to the time of the call
UpdateFrame(f, input) ==
    /\ last'.ok
    /\ f \in DOMAIN files'
    /\ Get(files'[f], "updatedAt") = Some(clock)
    /\ \A k \in (DOMAIN files[f] \cup DOMAIN files'[f]) \ (Supplied(input) \cup {"updatedAt"}) :
          Keeps(f, k)
    /\ \A g \in DOMAIN files \ {f} : g \in DOMAIN files' /\ files'[g] = files[g]
UpdateAbsent(ticketId) ==
    /\ ~last'.ok
    /\ last'.err = <<"Ticket not found: ">> \o ticketId
    /\ files' = files /\ dirs' = dirs /\ board' = board

\* C10: updateTicket on a stored ticket changes only the fields the caller
\* gave a value for and updatedAt, which it always refreshes, also when the
\* omitted fields arrive as properties with the value undefined (board.update,
\* the board tool's update action); on an absent id it fails with 'Ticket not
\* found' and writes nothing
C10_UpdateFrame ==
    [][Called("updateTicket") =>
          IF ticketPath(last'.args.ticketId) \in DOMAIN files
          THEN UpdateFrame(ticketPath(last'.args.ticketId), last'.args.input)
          ELSE UpdateAbsent(last'.args.ticketId)]_vars

\* C11: the first successful moveTicket of a ticket into in-progress assigns
\* its codeLocation, derived from its id and title; from then on codeLocation
\* keeps that value under every moveTicket and every updateTicket that
\* changes the title
C11_CodeLocationKept ==
    [][\A f \in DOMAIN files \cap DOMAIN files' :
          /\ (Has(files[f], "codeLocation")
                /\ (Called("moveTicket") \/ Called("updateTicket"))) => Keeps(f, "codeLocation")
          /\ (/\ ~Has(files[f], "codeLocation")
              /\ Called("moveTicket") /\ last'.ok
              /\ f = ticketPath(last'.args.ticketId)
              /\ last'.args.toStatus = "in-progress") =>
                Get(files'[f], "codeLocation") =
                    Some(deriveCodeLocation(files[f]["id"], files[f]["title"]))
          /\ (~Has(files[f], "codeLocation") /\ Has(files'[f], "codeLocation")) =>
                (Called("moveTicket") /\ last'.args.toStatus = "in-progress")]_vars

\* a ticket whose title was changed after its first move into in-progress
\* was moved into in-progress again and still has the first codeLocation
C11_Witness ==
    /\ last.op = "moveTicket" /\ last.ok
    /\ last.args.toStatus = "in-progress"
    /\ \E f \in DOMAIN files :
          /\ files[f] = Val(last.value)
          /\ files[f]["title"] = TitleFix
          /\ files[f]["codeLocation"] = deriveCodeLocation(files[f]["id"], TitleAdd)
          /\ files[f]["codeLocation"] # deriveCodeLocation(files[f]["id"], TitleFix)

-----------------------------------------------------------------------------
(* SpecSlug: deriveCodeLocation as a function of (ticketId, title).        *)

\* Titles: up to MaxAffix characters, a run of letters whose length is 0, 1
\* or near the slug's maximal length, up to MaxAffix characters
AffixChars == {"a", "Z", "-", " "}
RECURSIVE SeqsUpTo(_, _)
SeqsUpTo(chars, n) ==
    IF n = 0 THEN {<<>>}
    ELSE SeqsUpTo(chars, n - 1)
            \cup {Append(q, c) : q \in {r \in SeqsUpTo(chars, n - 1) : Len(r) = n - 1}, c \in chars}
RunLengths == {0, 1} \cup (SlugMax - 3)..(SlugMax + 1)
RunOf(n) == [i \in 1..n |-> "x"]
SlugTitles ==
    {pre \o RunOf(n) \o suf :
        pre \in SeqsUpTo(AffixChars, MaxAffix), n \in RunLengths,
        suf \in SeqsUpTo(AffixChars, MaxAffix)}
SlugIds == IssuableIds({ProjA}, 1)

InitSlug ==
    /\ board = None
    /\ dirs = FALSE
    /\ files = <<>>
    /\ clock = 0
    /\ \E id \in SlugIds, title \in SlugTitles :
          last = Call("input", [ticketId |-> id, title |-> title], TRUE, <<>>, None)
    /\ issued = <<>>
    /\ procs = NoProcs

deriveCall ==
    /\ last.op = "input"
    /\ last' = Call("deriveCodeLocation", last.args, TRUE, <<>>,
                    Some(deriveCodeLocation(last.args.ticketId, last.args.title)))
    /\ UNCHANGED <<board, dirs, files, clock, issued, procs>>

NextSlug == deriveCall

SpecSlug == InitSlug /\ [][NextSlug]_vars

\* What follows head in text, when text begins with head
After(text, head) == SubSeq(text, Len(head) + 1, Len(text))
BeginsWith(text, head) == Len(text) >= Len(head) /\ SubSeq(text, 1, Len(head)) = head

BranchHead(id) == <<"s","t","o","r","y","/">> \o toLowerCase(id) \o <<"-">>
WorktreeHead(id) == <<".",".","/","w","t","-">> \o toLowerCase(id) \o <<"-">>

\* A slug: only [a-z0-9-], no two hyphens in a row, at most SlugMax
\* characters, no hyphen first or last
SlugShape(slug) ==
    /\ \A i \in DOMAIN slug : IsSlugChar(slug[i]) \/ slug[i] = "-"
    /\ \A i \in DOMAIN slug : (i > 1 /\ slug[i] = "-") => slug[i - 1] # "-"
    /\ Len(slug) <= SlugMax
SlugEnds(slug) == slug # <<>> => (slug[1] # "-" /\ slug[Len(slug)] # "-")

DerivedShape(id, loc) ==
    /\ BeginsWith(loc.branch, BranchHead(id))
    /\ BeginsWith(loc.worktree, WorktreeHead(id))
    /\ After(loc.branch, BranchHead(id)) = After(loc.worktree, WorktreeHead(id))
    /\ SlugShape(After(loc.branch, BranchHead(id)))

\* C12: branch is "story/" + lowercase(id) + "-" + slug and worktree is
\* "../wt-" + lowercase(id) + "-" + slug, and for every title the slug has
\* only [a-z0-9-], no two adjacent hyphens, at most 40 characters, and
\* neither starts nor ends with a hyphen
C12_SlugShape ==
    last.op = "deriveCodeLocation" =>
        /\ DerivedShape(last.args.ticketId, Val(last.value))
        /\ SlugEnds(After(Val(last.value).branch, BranchHead(last.args.ticketId)))

-----------------------------------------------------------------------------
(* Further properties of a ticket's life (Spec).                           *)

\* The file a successful moveTicket step has written
Moved(f) == Called("moveTicket") /\ last'.ok /\ f = ticketPath(last'.args.ticketId)

\* C13: every successful moveTicket into done sets completedAt to the time of
\* the move, which is also the new statusChangedAt, whether or not an earlier
\* completion had set it; a move to any other status leaves completedAt as
\* it was
C13_CompletedAtOnDone ==
    [][\A f \in DOMAIN files \cap DOMAIN files' :
          Moved(f) =>
              IF last'.args.toStatus = "done"
              THEN /\ Get(files'[f], "completedAt") = Some(clock)
                   /\ Get(files'[f], "completedAt") = Get(files'[f], "statusChangedAt")
              ELSE Keeps(f, "completedAt")]_vars

\* a ticket completed at an earlier time was moved out of done and keeps its
\* completedAt
C13_Witness ==
    /\ last.op = "moveTicket" /\ last.ok
    /\ last.args.toStatus # "done"
    /\ clock = MaxClock
    /\ \E f \in DOMAIN files :
          /\ files[f] = Val(last.value)
          /\ Get(files[f], "completedAt") = Some(0)
          /\ Get(files[f], "statusChangedAt") = Some(MaxClock)

-----------------------------------------------------------------------------
(* SpecThread: the comments of one ticket under addComment, moveTicket     *)
(* with and without a note, and updateTicket, with the clock running.      *)

ThreadIds == IssuableIds({ProjA}, MaxLife + 1)
\* no note, the empty note, a note
ThreadNotes == {None, Some(<<>>), Some(<<"why">>)}
ThreadStatuses == {"in-progress", "done"}
ThreadPatches == { [title |-> Some(TitleFix)], [comments |-> Some(<<>>)] }
RoomInThread(ticketId) ==
    ticketPath(ticketId) \in DOMAIN files
        => Len(CommentsOf(ticketPath(ticketId))) < MaxThread

NextThread ==
    \/ Tick
    \/ RoomForTicket(MaxLife) /\ createTicket([title |-> TitleAdd])
    \/ \E id \in ThreadIds : RoomInThread(id) /\ addComment(id, "agent", <<"note">>)
    \/ \E id \in ThreadIds, to \in ThreadStatuses, note \in ThreadNotes :
          RoomInThread(id) /\ moveTicket(id, to, note)
    \/ \E id \in ThreadIds, i \in ThreadPatches : updateTicket(id, i)

SpecThread == InitWip /\ [][NextThread]_vars

\* The comments stored in record r
Thread(r) == IF Has(r, "comments") THEN r["comments"] ELSE <<>>
IsPrefix(a, b) == Len(a) <= Len(b) /\ SubSeq(b, 1, Len(a)) = a

\* C14: moveTicket with a non-empty note appends exactly one comment after
\* the ticket's comments, by "system", reading "Moved to <toStatus>: <note>",
\* stamped with the time of the move; with no note or the empty note the
\* comments stay as they are; a move that fails stores nothing
C14_NoteBecomesComment ==
    [][Called("moveTicket") =>
          IF last'.ok
          THEN /\ ticketPath(last'.args.ticketId) \in DOMAIN files
               /\ Thread(files'[ticketPath(last'.args.ticketId)]) =
                     IF Truthy(last'.args.note)
                     THEN Append(Thread(files[ticketPath(last'.args.ticketId)]),
                                 [author |-> "system",
                                  text |-> <<"Moved to ", last'.args.toStatus, ": ">>
                                              \o Val(last'.args.note),
                                  createdAt |-> clock])
                     ELSE Thread(files[ticketPath(last'.args.ticketId)])
          ELSE files' = files]_vars

\* a move with a note at a later time appended its comment after an earlier
\* comment
C14_Witness ==
    /\ last.op = "moveTicket" /\ last.ok /\ Truthy(last.args.note)
    /\ \E f \in DOMAIN files :
          /\ files[f] = Val(last.value)
          /\ Len(Thread(files[f])) = MaxThread
          /\ Thread(files[f])[1].author = "agent"
          /\ Thread(files[f])[1].createdAt = 0
          /\ Thread(files[f])[MaxThread].author = "system"
          /\ Thread(files[f])[MaxThread].createdAt = MaxClock

\* C15: addComment on a stored ticket appends exactly one comment, with the
\* given author and text, after the existing ones; on an absent ticket it
\* fails with 'Ticket not found' and writes nothing; and over every
\* addComment, moveTicket and updateTicket step, whatever the patch, a
\* ticket's earlier comments are a prefix of its later ones
C15_CommentsAppendOnly ==
    [][/\ \A f \in DOMAIN files \cap DOMAIN files' :
             IsPrefix(Thread(files[f]), Thread(files'[f]))
       /\ Called("addComment") =>
             IF ticketPath(last'.args.ticketId) \in DOMAIN files
             THEN /\ last'.ok
                  /\ Thread(files'[ticketPath(last'.args.ticketId)]) =
                        Append(Thread(files[ticketPath(last'.args.ticketId)]),
                               [author |-> last'.args.author, text |-> last'.args.text,
                                createdAt |-> clock])
             ELSE /\ ~last'.ok
                  /\ last'.err = <<"Ticket not found: ">> \o last'.args.ticketId
                  /\ files' = files]_vars

-----------------------------------------------------------------------------
(* Deletion (SpecWip).                                                     *)

HeldAfter(id) ==
    {f \in DOMAIN listDir(dirs', files') : Get(listDir(dirs', files')[f], "status") = Some(id)}
Gone(ticketId) ==
    /\ last'.ok /\ last'.value = Some(TRUE)
    /\ loadTicket(files', ticketId) = None
    /\ ticketPath(ticketId) \notin DOMAIN listDir(dirs', files')
    /\ \A i \in DOMAIN Val(board').columns :
          ticketPath(ticketId) \notin HeldAfter(Val(board').columns[i].id)
    /\ \A to \in WipStatuses, id \in WipIds :
          ticketPath(ticketId) \notin InColumn(listDir(dirs', files'), to, id)
    /\ \A g \in DOMAIN files \ {ticketPath(ticketId)} : g \in DOMAIN files' /\ files'[g] = files[g]
NothingToDelete ==
    /\ last'.ok /\ last'.value = Some(FALSE)
    /\ files' = files /\ board' = board /\ dirs' = dirs

\* C16: deleteTicket on an id with no ticket file returns false, throws
\* nothing and changes nothing; on a stored ticket it returns true, and then
\* loadTicket of the id finds nothing, listTickets does not list it, and no
\* column's WIP count includes it
C16_DeleteRemoves ==
    [][Called("deleteTicket") =>
          IF ticketPath(last'.args.ticketId) \in DOMAIN files
          THEN Gone(last'.args.ticketId)
          ELSE NothingToDelete]_vars

\* a ticket was deleted out of the full in-progress column, which now holds
\* one ticket less than its limit
C16_Witness ==
    /\ last.op = "deleteTicket" /\ last.value = Some(TRUE)
    /\ ticketPath(last.args.ticketId) \notin DOMAIN files
    /\ Len(issued) = MaxTickets
    /\ Cardinality(DOMAIN files) = MaxTickets - 1
    /\ Cardinality(Held("in-progress")) = WipInProgress - 1
    /\ Cardinality(Held("backlog")) = 1

-----------------------------------------------------------------------------
(* SpecMigrate: one ticket file, written under the older schema or the     *)
(* current one, on an initialized board.  It is loaded and listed, and     *)
(* taken through load-save cycles by updateTicket, moveTicket and          *)
(* addComment.                                                             *)

\* The current schema (index.ts)
TicketTypes == {"feature", "bugfix", "chore", "experiment"}
TicketFields ==
    {"id", "title", "type", "status", "priority", "intent", "acceptanceSignal",
     "comments", "codeLocation", "createdAt", "updatedAt", "createdBy",
     "statusChangedAt", "completedAt"}
CurrentSchema(r) ==
    /\ DOMAIN r \subseteq TicketFields
    /\ {"id", "title", "type", "status", "createdAt", "updatedAt"} \subseteq DOMAIN r
    /\ r["type"] \in TicketTypes
    /\ r["status"] \in Range(VALID_STATUSES)

\* loadTicket and listTickets as calls: they write nothing
loadTicketCall(ticketId) ==
    /\ last' = IF loadTicketThrows(files, ticketId)
               THEN Call("loadTicket", [ticketId |-> ticketId], FALSE,
                         loadTicketError(files, ticketId), None)
               ELSE Call("loadTicket", [ticketId |-> ticketId], TRUE, <<>>,
                         loadTicket(files, ticketId))
    /\ UNCHANGED <<board, dirs, files, clock, issued, procs>>
listTicketsCall ==
    /\ last' = Call("listTickets", <<>>, TRUE, <<>>, Some(listDir(dirs, files)))
    /\ UNCHANGED <<board, dirs, files, clock, issued, procs>>

\* The stored records drawn
StoredId == CreateId(NewBoard(ProjA, "Proj", 0))
StoredTypes == DOMAIN TYPE_MIGRATION \cup TicketTypes \cup {"spike"}
StoredStatuses == {"blocked", "backlog", "refinement", "in-progress"}
DescText == <<"Old description">>
SignalText == <<"It works">>
NoteText(i) == <<"note ">> \o NumToStr(i)
NoteList(k) == [i \in 1..k |-> NoteText(i)]
StoredNotes ==
    {None, Some([list |-> FALSE, notes |-> <<NoteText(1)>>])}
        \cup {Some([list |-> TRUE, notes |-> NoteList(k)]) : k \in 0..MaxNotes}
StoredComments ==
    {None, Some(<<>>), Some(<<[author |-> "agent", text |-> <<"seen">>, createdAt |-> 0]>>)}
RawBase ==
    [id |-> StoredId, title |-> TitleAdd, type |-> "bug", status |-> "blocked",
     createdAt |-> 0, updatedAt |-> 0]
\* every type against every status
RawVocabulary ==
    {Spread(RawBase, [type |-> t, status |-> Some(st)]) :
        t \in {None} \cup {Some(x) : x \in StoredTypes}, st \in StoredStatuses}
\* the texts that were renamed, with fields that were removed
RawTexts ==
    {Spread(RawBase,
            [description |-> d, intent |-> i, acceptanceCriteria |-> a,
             acceptanceSignal |-> g, priority |-> Some("high"),
             rejectionCount |-> Some(2), researchNotes |-> Some(<<"read">>),
             estimate |-> Some(<<"2h">>), parentId |-> Some(<<"P">>),
             labels |-> Some(<<"x">>), tags |-> Some(<<"y">>),
             blockedBy |-> Some(<<"B">>), assignee |-> Some(<<"me">>),
             staleAt |-> Some(0)]) :
        d \in {None, Some(<<>>), Some(DescText)},
        i \in {None, Some(IntentText)},
        a \in {None} \cup {Some(NoteList(k)) : k \in 0..MaxNotes},
        g \in {None, Some(SignalText)}}
\* progress notes against comments, with and without updatedAt
RawNotes ==
    {Spread(RawBase, [progressNotes |-> n, comments |-> c, updatedAt |-> u]) :
        n \in StoredNotes, c \in StoredComments, u \in {None, Some(0)}}
RawRecords == RawVocabulary \cup RawTexts \cup RawNotes

InitMigrate ==
    /\ board = Some(NewBoard(ProjA, "Proj", 0))
    /\ dirs = TRUE
    /\ \E r \in RawRecords : files = WriteFile(<<>>, ticketPath(StoredId), r)
    /\ clock = 0
    /\ last = Call("initBoard", [projectId |-> ProjA, projectName |-> "Proj"], TRUE, <<>>,
                   Some(NewBoard(ProjA, "Proj", 0)))
    /\ issued = <<>>
    /\ procs = NoProcs

MigrateIds == CallerIds({ProjA}, 1)
RoomForNote(ticketId) ==
    ticketPath(ticketId) \in DOMAIN files
        => Len(CommentsOf(ticketPath(ticketId))) < MaxNotes + 1

NextMigrate ==
    \/ Tick
    \/ \E id \in MigrateIds : loadTicketCall(id)
    \/ listTicketsCall
    \/ updateTicket(StoredId, [title |-> Some(TitleFix)])
    \/ moveTicket(StoredId, "ready", None)
    \/ RoomForNote(StoredId) /\ addComment(StoredId, "agent", <<"note">>)

SpecMigrate == InitMigrate /\ [][NextMigrate]_vars

-----------------------------------------------------------------------------
(* Properties of the migration (SpecMigrate).                              *)

\* The outcome of migrateTicket: None when it throws
Normalize(raw) == IF migrateThrows(raw) THEN None ELSE Some(migrateTicket(raw))
Again(o) == IF IsSome(o) THEN Normalize(Val(o)) ELSE None
StoredPath == ticketPath(StoredId)
Cycles == {"updateTicket", "moveTicket", "addComment"}

Idempotent(r) ==
    /\ Again(Normalize(r)) = Normalize(r)
    /\ CurrentSchema(r) => Normalize(r) = Some(r)
    /\ IsSome(Normalize(r)) =>
          loadTicket(saveTicket(files, migrateTicket(r)), r["id"]) = Normalize(r)
\* a load right after a call that saved the ticket returns what that call returned
LoadAfterSave ==
    (Called("loadTicket") /\ last.op \in Cycles /\ last.ok) =>
        last'.ok /\ last'.value = last.value

\* C17: migrateTicket is idempotent on every stored record; a record of the
\* current schema is returned as it is, without an error; and a normalized
\* ticket, once saved, loads as the same ticket
C17_MigrateIdempotent ==
    /\ [](\A f \in DOMAIN files : Idempotent(files[f]))
    /\ [][LoadAfterSave]_vars

\* a record with a description and an old type was migrated and saved by
\* updateTicket, and the load after it returns the stored ticket
C17_Witness ==
    /\ last.op = "loadTicket" /\ last.ok
    /\ StoredPath \in DOMAIN files
    /\ last.value = Some(files[StoredPath])
    /\ Get(files[StoredPath], "title") = Some(TitleFix)
    /\ Get(files[StoredPath], "intent") = Some(DescText)
    /\ Get(files[StoredPath], "type") = Some("bugfix")
    /\ Get(files[StoredPath], "updatedAt") = Some(MaxClock)
    /\ CurrentSchema(files[StoredPath])

\* The current word for a stored type or status
NewType(t) ==
    IF t \in {Some("epic"), Some("story")} THEN Some("feature")
    ELSE IF t = Some("task") THEN Some("chore")
    ELSE IF t = Some("bug") THEN Some("bugfix")
    ELSE IF t \in {Some("idea"), Some("research")} THEN Some("experiment")
    ELSE t
NewStatus(st) == IF st = Some("blocked") THEN Some("backlog") ELSE st
Vocabulary(r, m) ==
    /\ Get(m, "type") = NewType(Get(r, "type"))
    /\ Get(m, "status") = NewStatus(Get(r, "status"))
Loaded == last.op = "loadTicket" /\ last.ok /\ IsSome(last.value)
Listed == last.op = "listTickets" /\ last.ok
LoadedFile == files[ticketPath(last.args.ticketId)]

TextOf(o) == IF Truthy(o) THEN Val(o) ELSE <<>>
Renamed(r, m) ==
    /\ DOMAIN m \cap RemovedFields = {}
    /\ TextOf(Get(m, "intent")) =
          IF Truthy(Get(r, "intent")) THEN r["intent"] ELSE TextOf(Get(r, "description"))
    /\ TextOf(Get(m, "acceptanceSignal")) =
          IF Truthy(Get(r, "acceptanceSignal")) THEN r["acceptanceSignal"]
          ELSE Join(TextOf(Get(r, "acceptanceCriteria")))

\* C19: a loaded or listed ticket has none of the removed fields; its intent
\* is the stored intent when there is one and the stored description
\* otherwise; its acceptanceSignal is the stored one when there is one and
\* the stored acceptanceCriteria joined by newlines otherwise
C19_RemovedAndRenamed ==
    /\ Loaded => Renamed(LoadedFile, Val(last.value))
    /\ Listed => \A f \in DOMAIN Val(last.value) : Renamed(files[f], Val(last.value)[f])

\* a stored record with a description, MaxNotes criteria and the removed
\* fields was loaded: the description is the intent, the criteria the signal
C19_Witness ==
    /\ Loaded
    /\ RemovedFields \ {"progressNotes"} \subseteq DOMAIN LoadedFile
    /\ ~Has(LoadedFile, "intent") /\ ~Has(LoadedFile, "acceptanceSignal")
    /\ Get(LoadedFile, "description") = Some(DescText)
    /\ Get(LoadedFile, "acceptanceCriteria") = Some(NoteList(MaxNotes))
    /\ Get(Val(last.value), "intent") = Some(DescText)
    /\ Get(Val(last.value), "acceptanceSignal") = Some(Join(NoteList(MaxNotes)))

\* The comments made out of notes
IsSystem(c) == c.author = "system"
Synthesized(r) == SelectSeq(CommentsOrEmpty(r), IsSystem)
ListOfNotes(r) == Has(r, "progressNotes") /\ r["progressNotes"].list
NotesBecomeComments(r, m) ==
    /\ (ListOfNotes(r) /\ ~Truthy(Get(r, "comments"))) =>
          /\ Len(CommentsOrEmpty(m)) = Len(r["progressNotes"].notes)
          /\ \A i \in DOMAIN CommentsOrEmpty(m) :
                /\ m["comments"][i].author = "system"
                /\ m["comments"][i].text = r["progressNotes"].notes[i]
    /\ Truthy(Get(r, "comments")) => Get(m, "comments") = Get(r, "comments")
\* a load-save cycle, and any other step, keeps the synthesized comments
SynthesizedKept ==
    \A f \in DOMAIN files :
        IsSome(Normalize(files[f])) =>
            /\ f \in DOMAIN files'
            /\ IsSome(Normalize(files'[f]))
            /\ Synthesized(migrateTicket(files'[f])) = Synthesized(migrateTicket(files[f]))

\* C20: a record with a list of k progress notes and no comments is loaded
\* and listed with exactly k comments, in the notes' order, each by "system"
\* with the note as its text; a record that has a comment keeps its comments
\* as they are; and no load and no load-save cycle through updateTicket,
\* moveTicket or addComment changes the synthesized comments
C20_NotesSynthesizedOnce ==
    /\ [](Loaded => NotesBecomeComments(LoadedFile, Val(last.value)))
    /\ [](Listed => \A f \in DOMAIN Val(last.value) :
                       NotesBecomeComments(files[f], Val(last.value)[f]))
    /\ [][SynthesizedKept]_vars

\* MaxNotes notes were made comments and saved, an agent's comment was
\* appended after them, and the ticket was loaded again
C20_Witness ==
    /\ Loaded
    /\ last.value = Some(LoadedFile)
    /\ ~Has(LoadedFile, "progressNotes")
    /\ Len(CommentsOrEmpty(LoadedFile)) = MaxNotes + 1
    /\ Len(Synthesized(LoadedFile)) = MaxNotes
    /\ \A i \in 1..MaxNotes : LoadedFile["comments"][i].text = NoteText(i)
    /\ LoadedFile["comments"][MaxNotes + 1].author = "agent"

-----------------------------------------------------------------------------
(* SpecDisk: a workspace as it is found on disk.  The board directory may  *)
(* be missing; board.yaml may be missing or not decode; each ticket file   *)
(* may be missing, hold a ticket, hold a record with no id, hold a record  *)
(* of the older schema with a plain-string progressNotes, not decode, or   *)
(* not be readable.  The files are listed and loaded, and moved.           *)

loadBoardCall ==
    /\ last' = Call("loadBoard", <<>>, TRUE, <<>>, loadBoard(board))
    /\ UNCHANGED <<board, dirs, files, clock, issued, procs>>

DiskIds == IssuableIds({ProjA}, MaxDisk)
DiskStatuses == {"backlog", "in-progress"}
DiskRecord(id, st) ==
    [id |-> id, title |-> TitleAdd, type |-> "feature", status |-> st, comments |-> <<>>,
     createdAt |-> 0, updatedAt |-> 0, statusChangedAt |-> 0]
NoIdRecord == [title |-> TitleAdd, type |-> "feature", status |-> "in-progress"]
StringNotesRecord(id) ==
    [id |-> id, title |-> TitleAdd, type |-> "bug", status |-> "in-progress",
     progressNotes |-> [list |-> FALSE, notes |-> <<<<"did it">>>>],
     createdAt |-> 0, updatedAt |-> 0]
\* what may be at the path of ticket id: None is no file
DiskContents(id) ==
    {None, Some(NoIdRecord), Some(StringNotesRecord(id)), Some(Undecodable), Some(Unreadable)}
        \cup {Some(DiskRecord(id, st)) : st \in DiskStatuses}
DiskDraws ==
    {g \in [DiskIds -> UNION {DiskContents(id) : id \in DiskIds}] :
        \A id \in DiskIds : g[id] \in DiskContents(id)}
DiskFiles(g) == [f \in {ticketPath(id) : id \in {i \in DiskIds : IsSome(g[i])}} |-> Val(g[f])]
DiskBoards == {None, Some(NewBoard(ProjA, "Proj", 0)), Some(Undecodable)}

InitDisk ==
    /\ dirs \in BOOLEAN
    /\ board \in IF dirs THEN DiskBoards ELSE {None}
    /\ files \in IF dirs THEN {DiskFiles(g) : g \in DiskDraws} ELSE {<<>>}
    /\ clock = 0
    /\ last = Call("none", <<>>, TRUE, <<>>, None)
    /\ issued = <<>>
    /\ procs = NoProcs

DiskCallerIds == CallerIds({ProjA}, MaxDisk)

NextDisk ==
    \/ listTicketsCall
    \/ loadBoardCall
    \/ \E id \in DiskCallerIds : loadTicketCall(id)
    \/ \E id \in DiskIds, to \in DiskStatuses : moveTicket(id, to, None)

SpecDisk == InitDisk /\ [][NextDisk]_vars

DecodesWithId(content) == Has(content, "id")
UnreadableFiles == {f \in DOMAIN files : Has(files[f], "ioError")}

\* C21: listTickets returns the empty list when board/tickets does not
\* exist; otherwise it returns the normalized ticket of every file that
\* decodes to a record with an id, and of no other file: a file that does
\* not decode or has no id is left out without any other file being left out
C21_ListsEveryDecodedFile ==
    Listed =>
        IF ~dirs THEN Val(last.value) = <<>>
        ELSE /\ DOMAIN Val(last.value) = {f \in DOMAIN files : DecodesWithId(files[f])}
             /\ \A f \in DOMAIN Val(last.value) : Val(last.value)[f] = migrateTicket(files[f])

Absent == Call(last.op, last.args, TRUE, <<>>, None)

\* C22: loadTicket on a ticket file that is there but does not decode, and
\* loadBoard on such a board.yaml, give an outcome other than the null they
\* give when the file is absent
C22_CorruptIsNotAbsent ==
    /\ (/\ last.op = "loadTicket"
        /\ ticketPath(last.args.ticketId) \in DOMAIN files
        /\ Has(files[ticketPath(last.args.ticketId)], "yamlError")) => last # Absent
    /\ (/\ last.op = "loadBoard"
        /\ IsSome(board)
        /\ Has(Val(board), "yamlError")) => last # Absent

Raised == ~last.ok /\ last.err = IoErrorMsg

\* C23: a call that meets a file it cannot read (an I/O error other than
\* file-not-found) raises that error: loadTicket on such a file, listTickets
\* with such a file in the directory, and a moveTicket whose WIP count lists
\* the directory
C23_IoErrorsRaised ==
    /\ (/\ last.op = "loadTicket"
        /\ ticketPath(last.args.ticketId) \in UnreadableFiles) => Raised
    /\ (last.op = "listTickets" /\ UnreadableFiles # {}) => Raised
    /\ (/\ last.op = "moveTicket"
        /\ UnreadableFiles # {}
        /\ IsSome(loadBoard(board))
        /\ HasWipLimit(FindColumn(Val(board), last.args.toStatus))) => ~last.ok

-----------------------------------------------------------------------------
(* SpecSanitize: sanitizeId and the path of a ticket file, on ids of up to *)
(* MaxIdLen characters, path separators and dots among them.               *)

\* path.join (POSIX): the segments are split at "/", "" and "." are dropped,
\* ".." removes the component before it.  A path is a sequence of components.
FirstSep(chars, sep) == CHOOSE i \in DOMAIN chars : chars[i] = sep /\ \A j \in 1..(i - 1) : chars[j] # sep
RECURSIVE SplitAt(_, _)
SplitAt(chars, sep) ==
    IF \A i \in DOMAIN chars : chars[i] # sep THEN <<chars>>
    ELSE <<SubSeq(chars, 1, FirstSep(chars, sep) - 1)>>
             \o SplitAt(SubSeq(chars, FirstSep(chars, sep) + 1, Len(chars)), sep)
RECURSIVE Resolve(_, _)
Resolve(done, rest) ==
    IF rest = <<>> THEN done
    ELSE IF Head(rest) = <<>> \/ Head(rest) = <<".">> THEN Resolve(done, Tail(rest))
    ELSE IF Head(rest) = <<".", ".">>
    THEN Resolve(IF done = <<>> THEN done ELSE SubSeq(done, 1, Len(done) - 1), Tail(rest))
    ELSE Resolve(Append(done, Head(rest)), Tail(rest))
pathJoin(dir, segment) == Resolve(dir, SplitAt(segment, "/"))

YamlExt == <<".", "y", "a", "m", "l">>
WorkspaceDir == << <<"w", "s">> >>
BoardDirPath == pathJoin(WorkspaceDir, <<"b", "o", "a", "r", "d">>)
TicketsDirPath == pathJoin(BoardDirPath, <<"t", "i", "c", "k", "e", "t", "s">>)
\* path.join(boardDir, TICKETS_DIR, `${sanitizeId(ticketId)}.yaml`)
TicketFile(ticketId) == pathJoin(TicketsDirPath, sanitizeId(ticketId) \o YamlExt)

IdChars == {"a", "Z", "7", "-", "_", ".", "/", "\\", " "}
SanitizeInputs == UNION {[1..n -> IdChars] : n \in 0..MaxIdLen}

InitSanitize ==
    /\ board = None
    /\ dirs = FALSE
    /\ files = <<>>
    /\ clock = 0
    /\ \E id \in SanitizeInputs : last = Call("input", [ticketId |-> id], TRUE, <<>>, None)
    /\ issued = <<>>
    /\ procs = NoProcs

ticketPathCall ==
    /\ last.op = "input"
    /\ last' = Call("ticketPath", last.args, TRUE, <<>>, Some(TicketFile(last.args.ticketId)))
    /\ UNCHANGED <<board, dirs, files, clock, issued, procs>>

NextSanitize == ticketPathCall

SpecSanitize == InitSanitize /\ [][NextSanitize]_vars

SafeChars == UpperSet \cup DigitSet \cup {"-", "_"}
Sanitized(id) ==
    /\ Len(sanitizeId(id)) = Len(id)
    /\ Range(sanitizeId(id)) \subseteq SafeChars
    /\ sanitizeId(sanitizeId(id)) = sanitizeId(id)
InTicketsDir(id, path) ==
    /\ path = Append(TicketsDirPath, sanitizeId(id) \o YamlExt)
    /\ path = TicketFile(toLowerCase(id))
    /\ path = TicketFile(toUpperCase(id))
    /\ ticketPath(toLowerCase(id)) = ticketPath(id)
    /\ ticketPath(toUpperCase(id)) = ticketPath(id)

\* C24: sanitizeId gives a string of the id's length over A-Z, 0-9, '-' and
\* '_', and is idempotent; the path of the ticket file is the tickets
\* directory followed by one component, the sanitized id with ".yaml"; and
\* ids that differ only in letter case have the same path
C24_SanitizedPath ==
    last.op = "ticketPath" =>
        /\ Sanitized(last.args.ticketId)
        /\ InTicketsDir(last.args.ticketId, Val(last.value))

\* the id "../" has the path <tickets>/___.yaml
C24_Witness ==
    /\ last.op = "ticketPath"
    /\ last.args.ticketId = <<".", ".", "/">>
    /\ Val(last.value) = Append(TicketsDirPath, <<"_", "_", "_">> \o YamlExt)

-----------------------------------------------------------------------------
(* The queries (storage.ts, getTicketsByStatus and getNextWorkItem).       *)

\* new Date(stamp).getTime(): a tick of the clock is an hour
MsPerHour == 3600000
getTime(stamp) == stamp * MsPerHour

\* listTickets as a list: the listed files in the order readdir gave them
RECURSIVE KeepIn(_, _)
KeepIn(names, S) ==
    IF names = <<>> THEN <<>>
    ELSE (IF Head(names) \in S THEN <<Head(names)>> ELSE <<>>) \o KeepIn(Tail(names), S)
TicketsAt(names, list) == [i \in DOMAIN names |-> list[names[i]]]
listTicketsIn(names, d, fs) == TicketsAt(KeepIn(names, DOMAIN listDir(d, fs)), listDir(d, fs))

\* tickets.filter((t) => t.status === status)
RECURSIVE FilterStatus(_, _)
FilterStatus(list, status) ==
    IF list = <<>> THEN <<>>
    ELSE (IF Get(Head(list), "status") = Some(status) THEN <<Head(list)>> ELSE <<>>)
             \o FilterStatus(Tail(list), status)

\* .toSorted((a, b) => new Date(a.createdAt).getTime() - new Date(b.createdAt).getTime()):
\* the sort is stable, so each element goes after those that compare <= 0 with it
CreatedBefore(a, b) == getTime(a["createdAt"]) - getTime(b["createdAt"])
InsertAt(sorted, t, k) == SubSeq(sorted, 1, k) \o <<t>> \o SubSeq(sorted, k + 1, Len(sorted))
\* An insertion in front of the elements that compare equal
InsertCreatedFirst(sorted, t) ==
    InsertAt(sorted, t, Cardinality({i \in DOMAIN sorted : CreatedBefore(sorted[i], t) < 0}))
InsertCreated(sorted, t) ==
    InsertAt(sorted, t, Cardinality({i \in DOMAIN sorted : CreatedBefore(sorted[i], t) <= 0}))
RECURSIVE SortCreated(_)
SortCreated(list) ==
    IF list = <<>> THEN <<>>
    ELSE InsertCreated(SortCreated(SubSeq(list, 1, Len(list) - 1)), list[Len(list)])

getTicketsByStatus(list, status) == SortCreated(FilterStatus(list, status))

\* ready[0] ?? null
HeadOrNone(list) == IF list = <<>> THEN None ELSE Some(Head(list))
\* A check that lets the queue go on when the column is exactly full
getNextWorkItemAbove(b, list) ==
    IF ~IsSome(b) THEN None
    ELSE IF /\ HasWipLimit(FindColumn(Val(b), "in-progress"))
            /\ Len(getTicketsByStatus(list, "in-progress"))
                  > WipLimitOf(FindColumn(Val(b), "in-progress"))
    THEN None
    ELSE HeadOrNone(getTicketsByStatus(list, "ready"))
getNextWorkItem(b, list) ==
    IF ~IsSome(b) THEN None
    ELSE IF /\ HasWipLimit(FindColumn(Val(b), "in-progress"))
            /\ Len(getTicketsByStatus(list, "in-progress"))
                  >= WipLimitOf(FindColumn(Val(b), "in-progress"))
    THEN None
    ELSE HeadOrNone(getTicketsByStatus(list, "ready"))

\* The queries as calls; readdir is the order in which the directory was read
getTicketsByStatusCall(status, names) ==
    /\ last' = Call("getTicketsByStatus", [status |-> status, readdir |-> names], TRUE, <<>>,
                    Some(getTicketsByStatus(listTicketsIn(names, dirs, files), status)))
    /\ UNCHANGED <<board, dirs, files, clock, issued, procs>>
getNextWorkItemCall(names) ==
    /\ last' = Call("getNextWorkItem", [readdir |-> names], TRUE, <<>>,
                    getNextWorkItem(loadBoard(board), listTicketsIn(names, dirs, files)))
    /\ UNCHANGED <<board, dirs, files, clock, issued, procs>>

-----------------------------------------------------------------------------
(* SpecQueue: up to MaxQueue tickets in backlog, ready and in-progress,    *)
(* created at two times, on a workspace with and without a board; the      *)
(* directory is read in ascending and in descending order of file name.    *)

QueueIdSeq == [n \in 1..MaxQueue |-> CreateId(NewBoardNumbered(n))]
Reverse(seq) == [i \in DOMAIN seq |-> seq[Len(seq) + 1 - i]]
QueueOrders == {QueueIdSeq, Reverse(QueueIdSeq)}
QueueStatuses == {"backlog", "ready", "in-progress"}
QueueTimes == {0, 1}
QueueTicket(id, st, t) ==
    [id |-> id, title |-> TitleAdd, type |-> "feature", status |-> st, comments |-> <<>>,
     createdAt |-> t, updatedAt |-> 1, statusChangedAt |-> 1]
QueueContents(id) ==
    {None} \cup {Some(QueueTicket(id, st, t)) : st \in QueueStatuses, t \in QueueTimes}
QueueDraws ==
    {g \in [Range(QueueIdSeq) -> UNION {QueueContents(id) : id \in Range(QueueIdSeq)}] :
        \A id \in Range(QueueIdSeq) : g[id] \in QueueContents(id)}
QueueFiles(g) == [f \in {i \in Range(QueueIdSeq) : IsSome(g[i])} |-> Val(g[f])]

InitQueue ==
    /\ board \in {None, Some(NewBoardNumbered(MaxQueue + 1))}
    /\ dirs = TRUE
    /\ files \in {QueueFiles(g) : g \in QueueDraws}
    /\ clock = 1
    /\ last = Call("none", <<>>, TRUE, <<>>, None)
    /\ issued = <<>>
    /\ procs = NoProcs

NextQueue ==
    \/ \E st \in QueueStatuses, names \in QueueOrders : getTicketsByStatusCall(st, names)
    \/ \E names \in QueueOrders : getNextWorkItemCall(names)

SpecQueue == InitQueue /\ [][NextQueue]_vars

\* The listing a query read, and where a ticket stands in it
ListingOf(call) == listTicketsIn(call.args.readdir, dirs, files)
PlaceIn(list, t) == CHOOSE k \in DOMAIN list : list[k] = t
WithStatus(list, status) == {k \in DOMAIN list : Get(list[k], "status") = Some(status)}
Result == Val(last.value)

ExactlyWithStatus(list, status, res) ==
    /\ Len(res) = Cardinality(WithStatus(list, status))
    /\ {res[i] : i \in DOMAIN res} = {list[k] : k \in WithStatus(list, status)}
OrderedByCreated(list, res) ==
    /\ \A i \in 1..(Len(res) - 1) : res[i]["createdAt"] <= res[i + 1]["createdAt"]
    /\ \A i, j \in DOMAIN res :
          (i < j /\ res[i]["createdAt"] = res[j]["createdAt"])
              => PlaceIn(list, res[i]) < PlaceIn(list, res[j])

EarliestReady(list, t) ==
    /\ \E k \in WithStatus(list, "ready") : list[k] = t
    /\ \A k \in WithStatus(list, "ready") : t["createdAt"] <= list[k]["createdAt"]
NextItem(b, list, res) ==
    IF ~IsSome(b) THEN res = None
    ELSE IF Cardinality(WithStatus(list, "in-progress")) >= WipInProgress THEN res = None
    ELSE IF WithStatus(list, "ready") = {} THEN res = None
    ELSE IsSome(res) /\ EarliestReady(list, Val(res))

-----------------------------------------------------------------------------
(* The health queries (storage.ts, getStaleTickets and getBoardSummary).   *)

TICKET_STATUS_ORDER ==
    "backlog" :> 0 @@ "ready" :> 1 @@ "in-progress" :> 2 @@ "review" :> 3 @@ "done" :> 4

\* const cutoff = Date.now() - maxHours * 60 * 60 * 1000
Cutoff(maxHours, now) == getTime(now) - maxHours * MsPerHour
\* A ticket that counts as stale from the cutoff on
IsStaleFromCutoff(t, cutoff) ==
    /\ Get(t, "status") = Some("in-progress")
    /\ Has(t, "statusChangedAt")
    /\ getTime(t["statusChangedAt"]) <= cutoff
IsStale(t, cutoff) ==
    /\ Get(t, "status") = Some("in-progress")
    /\ Has(t, "statusChangedAt")
    /\ getTime(t["statusChangedAt"]) < cutoff
RECURSIVE FilterStale(_, _)
FilterStale(list, cutoff) ==
    IF list = <<>> THEN <<>>
    ELSE (IF IsStale(Head(list), cutoff) THEN <<Head(list)>> ELSE <<>>)
             \o FilterStale(Tail(list), cutoff)
getStaleTickets(list, maxHours, now) == FilterStale(list, Cutoff(maxHours, now))

\* a.statusChangedAt ? new Date(a.statusChangedAt).getTime() : 0
ChangedTime(t) == IF Has(t, "statusChangedAt") THEN getTime(t["statusChangedAt"]) ELSE 0
InsertChanged(sorted, t) ==
    InsertAt(sorted, t,
             Cardinality({i \in DOMAIN sorted : ChangedTime(sorted[i]) - ChangedTime(t) <= 0}))
RECURSIVE SortChanged(_)
SortChanged(list) ==
    IF list = <<>> THEN <<>>
    ELSE InsertChanged(SortChanged(SubSeq(list, 1, Len(list) - 1)), list[Len(list)])

\* tickets.filter((t) => t.status !== "done").length
RECURSIVE OpenCount(_)
OpenCount(list) ==
    IF list = <<>> THEN 0
    ELSE (IF Get(Head(list), "status") # Some("done") THEN 1 ELSE 0) + OpenCount(Tail(list))
OldestBacklogAge(sorted, now) ==
    IF sorted # <<>> THEN Some(getTime(now) - getTime(sorted[1]["createdAt"])) ELSE None
\* An age taken from createdAt
OldestInProgressSinceCreated(sorted, now) ==
    IF sorted # <<>> /\ Has(sorted[1], "statusChangedAt")
    THEN Some(getTime(now) - getTime(sorted[1]["createdAt"]))
    ELSE None
OldestInProgressAge(sorted, now) ==
    IF sorted # <<>> /\ Has(sorted[1], "statusChangedAt")
    THEN Some(getTime(now) - getTime(sorted[1]["statusChangedAt"]))
    ELSE None
Summary(b, list, now) ==
    [id |-> b.id, name |-> b.name, projectName |-> b.projectName,
     ticketCount |-> Len(list),
     totalTickets |-> Len(list),
     openCount |-> OpenCount(list),
     completedCount |-> Len(FilterStatus(list, "done")),
     staleCount |-> Len(getStaleTickets(list, b.settings.staleInProgressHours, now)),
     oldestBacklogAge |-> OldestBacklogAge(SortCreated(FilterStatus(list, "backlog")), now),
     oldestInProgressAge |->
         OldestInProgressAge(SortChanged(FilterStatus(list, "in-progress")), now),
     columnCounts |-> [st \in DOMAIN TICKET_STATUS_ORDER |-> Len(FilterStatus(list, st))]]
getBoardSummary(b, list, now) == IF ~IsSome(b) THEN None ELSE Some(Summary(Val(b), list, now))

getStaleTicketsCall(maxHours, names) ==
    /\ last' = Call("getStaleTickets", [maxHours |-> maxHours, readdir |-> names], TRUE, <<>>,
                    Some(getStaleTickets(listTicketsIn(names, dirs, files), maxHours, clock)))
    /\ UNCHANGED <<board, dirs, files, clock, issued, procs>>
\* The board tool's stale action (board-tool.ts): the hours come from the
\* board's settings, FallbackStaleHours when there is no board; the result
\* carries id, title and statusChangedAt of every stale ticket
FallbackStaleHours == 24
StaleHours(b) == IF IsSome(b) THEN Val(b).settings.staleInProgressHours ELSE FallbackStaleHours
StaleEntry(t) ==
    [id |-> Get(t, "id"), title |-> Get(t, "title"), statusChangedAt |-> Get(t, "statusChangedAt")]
StaleResult(tickets) ==
    [status |-> "ok", count |-> Len(tickets),
     tickets |-> [i \in DOMAIN tickets |-> StaleEntry(tickets[i])]]
staleAction(names) ==
    /\ last' = Call("stale", [readdir |-> names], TRUE, <<>>,
                    Some(StaleResult(getStaleTickets(listTicketsIn(names, dirs, files),
                                                     StaleHours(loadBoard(board)), clock))))
    /\ UNCHANGED <<board, dirs, files, clock, issued, procs>>
getBoardSummaryCall(names) ==
    /\ last' = Call("getBoardSummary", [readdir |-> names], TRUE, <<>>,
                    getBoardSummary(loadBoard(board), listTicketsIn(names, dirs, files), clock))
    /\ UNCHANGED <<board, dirs, files, clock, issued, procs>>

-----------------------------------------------------------------------------
(* SpecAges: up to MaxAges tickets whose last move lies just before, at    *)
(* and just after the two staleness thresholds; the clock reads AgesNow.   *)

AgesNow == StaleInProgressHours + 2
AgesTimes ==
    {AgesNow - StaleInProgressHours - 1, AgesNow - StaleInProgressHours,
     AgesNow - Day - 1, AgesNow - Day, AgesNow - Day + 1}
AgesIdSeq == [n \in 1..MaxAges |-> CreateId(NewBoardNumbered(n))]
AgesOrders == {AgesIdSeq, Reverse(AgesIdSeq)}
AgesTicket(id, st, created, changed) ==
    Spread([id |-> id, title |-> TitleAdd, type |-> "feature", status |-> st,
            comments |-> <<>>, createdAt |-> created, updatedAt |-> AgesNow],
           [statusChangedAt |-> changed])
\* a backlog ticket as created, or moved back just now; an in-progress ticket
\* made at time 0 and moved at one of the times, or (from the older schema)
\* with no statusChangedAt; a done ticket finished long ago
AgesContents(id) ==
    {None}
        \cup {Some(AgesTicket(id, "backlog", t, Some(t))) : t \in AgesTimes}
        \cup {Some(AgesTicket(id, "backlog", t, Some(AgesNow))) : t \in AgesTimes}
        \cup {Some(AgesTicket(id, "in-progress", 0, c)) : c \in {None} \cup {Some(t) : t \in AgesTimes}}
        \cup {Some(AgesTicket(id, "done", 0, Some(AgesNow - StaleInProgressHours - 1)))}
AgesDraws ==
    {g \in [Range(AgesIdSeq) -> UNION {AgesContents(id) : id \in Range(AgesIdSeq)}] :
        \A id \in Range(AgesIdSeq) : g[id] \in AgesContents(id)}
AgesFiles(g) == [f \in {i \in Range(AgesIdSeq) : IsSome(g[i])} |-> Val(g[f])]

InitAges ==
    /\ board \in {None, Some(NewBoardNumbered(MaxAges + 1))}
    /\ dirs = TRUE
    /\ files \in {AgesFiles(g) : g \in AgesDraws}
    /\ clock = AgesNow
    /\ last = Call("none", <<>>, TRUE, <<>>, None)
    /\ issued = <<>>
    /\ procs = NoProcs

NextAges ==
    \/ \E h \in {Day, StaleInProgressHours}, names \in AgesOrders : getStaleTicketsCall(h, names)
    \/ \E names \in AgesOrders : getBoardSummaryCall(names)
    \/ \E names \in AgesOrders : staleAction(names)

SpecAges == InitAges /\ [][NextAges]_vars

\* The hours since a stamp
HoursSince(stamp) == clock - stamp
StaleOnes(list, maxHours) ==
    {k \in WithStatus(list, "in-progress") :
        Has(list[k], "statusChangedAt") /\ HoursSince(list[k]["statusChangedAt"]) > maxHours}

\* C27: getStaleTickets(maxHours) returns exactly the listed tickets that
\* are in-progress and whose statusChangedAt is more than maxHours hours
\* before now, each once; no ticket of another column is returned
C27_StaleTickets ==
    last.op = "getStaleTickets" =>
        /\ Len(Result) = Cardinality(StaleOnes(ListingOf(last), last.args.maxHours))
        /\ {Result[i] : i \in DOMAIN Result}
              = {ListingOf(last)[k] : k \in StaleOnes(ListingOf(last), last.args.maxHours)}

\* with maxHours = Day, of two in-progress tickets the one moved Day + 1
\* hours ago is returned and the one moved Day - 1 hours ago is not
C27_Witness ==
    /\ last.op = "getStaleTickets" /\ last.args.maxHours = Day
    /\ Len(Result) = 1
    /\ HoursSince(Result[1]["statusChangedAt"]) = Day + 1
    /\ \E k \in WithStatus(ListingOf(last), "in-progress") :
          /\ Has(ListingOf(last)[k], "statusChangedAt")
          /\ HoursSince(ListingOf(last)[k]["statusChangedAt"]) = Day - 1

\* The listing the summary was computed from, and the summary
SummaryOf == Val(last.value)
Backlog == WithStatus(ListingOf(last), "backlog")
InProgress == WithStatus(ListingOf(last), "in-progress")
\* The in-progress tickets that carry no statusChangedAt
Unstamped == {k \in InProgress : ~Has(ListingOf(last)[k], "statusChangedAt")}
AgeMs(stamp) == HoursSince(stamp) * MsPerHour
CountsPerColumn ==
    /\ DOMAIN SummaryOf.columnCounts = {"backlog", "ready", "in-progress", "review", "done"}
    /\ \A st \in DOMAIN SummaryOf.columnCounts :
          SummaryOf.columnCounts[st] = Cardinality(WithStatus(ListingOf(last), st))
Totals ==
    /\ SummaryOf.totalTickets = Len(ListingOf(last))
    /\ SummaryOf.ticketCount = SummaryOf.totalTickets
    /\ SummaryOf.completedCount = SummaryOf.columnCounts["done"]
    /\ SummaryOf.openCount + SummaryOf.completedCount = SummaryOf.totalTickets
    /\ SummaryOf.staleCount
          = Len(getStaleTickets(ListingOf(last), Val(board).settings.staleInProgressHours, clock))
BacklogAge ==
    IF Backlog = {} THEN SummaryOf.oldestBacklogAge = None
    ELSE \E k \in Backlog :
            /\ \A j \in Backlog :
                  ListingOf(last)[k]["createdAt"] <= ListingOf(last)[j]["createdAt"]
            /\ SummaryOf.oldestBacklogAge = Some(AgeMs(ListingOf(last)[k]["createdAt"]))
\* a ticket with no statusChangedAt is ordered before every stamped one
\* and has no age to report
InProgressAge ==
    IF InProgress = {} \/ Unstamped # {} THEN SummaryOf.oldestInProgressAge = None
    ELSE \E k \in InProgress :
            /\ \A j \in InProgress :
                  ListingOf(last)[k]["statusChangedAt"] <= ListingOf(last)[j]["statusChangedAt"]
            /\ SummaryOf.oldestInProgressAge = Some(AgeMs(ListingOf(last)[k]["statusChangedAt"]))

-----------------------------------------------------------------------------
(* SpecCreate: tickets created with and without a type while the clock     *)
(* moves and earlier tickets are started and finished.                     *)

CreateIds == CallerIds({ProjA}, MaxCreate)
NextCreate ==
    \/ Tick
    \/ \E i \in CrashCreates : RoomForTicket(MaxCreate) /\ createTicket(i)
    \/ \E id \in CreateIds, to \in {"in-progress", "done"} : moveTicket(id, to, None)

SpecCreate == InitWip /\ [][NextCreate]_vars

\* The ticket a createTicket call returns, and the file it is stored in
Created == Val(last'.value)
CreatedPath == ticketPath(Created["id"])
FreshRecord ==
    /\ Get(Created, "status") = Some(Val(board').columns[1].id)
    /\ Get(Created, "status") = Some("backlog")
    /\ Get(Created, "type")
          = (IF Has(last'.args.input, "type") THEN Get(last'.args.input, "type")
             ELSE Some("feature"))
    /\ Get(Created, "comments") = Some(<<>>)
    /\ ~Has(Created, "codeLocation") /\ ~Has(Created, "completedAt")
    /\ Has(Created, "createdAt")
    /\ Created["createdAt"] = clock
    /\ Get(Created, "updatedAt") = Get(Created, "createdAt")
    /\ Get(Created, "statusChangedAt") = Get(Created, "createdAt")
OthersKept ==
    /\ CreatedPath \notin DOMAIN files
    /\ DOMAIN files' = DOMAIN files \cup {CreatedPath}
    /\ \A f \in DOMAIN files : files'[f] = files[f]

\* C29: a successful createTicket returns the record it stores; the record
\* has the status of the board's first column (backlog), the given type or
\* "feature" when none is given, an empty comment list, no codeLocation and
\* no completedAt, and createdAt = updatedAt = statusChangedAt = the time of
\* the call; every other ticket file is left as it was
C29_CreatedRecord ==
    [][Called("createTicket") /\ last'.ok =>
          /\ files'[CreatedPath] = Created
          /\ FreshRecord
          /\ OthersKept]_vars

\* a ticket created without a type, after the clock moved, next to a
\* ticket that was started (and so carries a codeLocation)
C29_Witness ==
    /\ last.op = "createTicket" /\ last.ok
    /\ ~Has(last.args.input, "type")
    /\ Get(Val(last.value), "type") = Some("feature")
    /\ Val(last.value)["createdAt"] = MaxClock
    /\ \E f \in DOMAIN files : Has(files[f], "codeLocation")

-----------------------------------------------------------------------------
(* SpecRpc: board.update requests with a comment, with field changes, with *)
(* both and with neither, on tickets that exist, were deleted or were      *)
(* never created.                                                          *)

RpcIds == CallerIds({ProjA}, MaxRpc)
RpcComment == <<" ", "Looks good", " ">>
RpcRequests ==
    { <<>>,
      [comment |-> <<" ">>],
      [comment |-> RpcComment],
      [title |-> TitleFix],
      [comment |-> RpcComment, intent |-> IntentText] }
NextRpc ==
    \/ Tick
    \/ RoomForTicket(MaxRpc) /\ createTicket([title |-> TitleAdd])
    \/ \E id \in RpcIds : deleteTicket(id)
    \/ \E id \in RpcIds, p \in RpcRequests :
          (HasComment(p) => RoomForComment(id)) /\ boardUpdate(id, p)

SpecRpc == InitWip /\ [][NextRpc]_vars

\* The last call was a board.update request (one with field changes and no
\* comment ends in updateTicket) for a ticket that has no file
OnMissingTicket ==
    /\ last.op \in {"board.update", "updateTicket"}
    /\ ticketPath(last.args.ticketId) \notin DOMAIN files

\* C30: a board.update request for a ticket id that does not exist, whether
\* it carries a comment, field changes or neither, is answered with a
\* failure whose message names the missing ticket
C30_MissingTicketFails ==
    OnMissingTicket => ~last.ok /\ last.err = NotFound(last.args.ticketId)

-----------------------------------------------------------------------------
(* The board tool's stale action, in SpecAges.                             *)

\* "stale: List stale in-progress tickets (>24h)"
DescribedStaleHours == 24
\* The listed in-progress tickets last moved more than DescribedStaleHours ago
LongInProgress == StaleOnes(ListingOf(last), DescribedStaleHours)

\* C31: on a board with the default settings the stale action's result
\* includes every in-progress ticket whose statusChangedAt is more than 24
\* hours in the past (one moved 25 hours ago is included)
C31_StaleActionOverADay ==
    (last.op = "stale" /\ IsSome(board)) =>
        \A k \in LongInProgress :
            \E i \in DOMAIN Val(last.value).tickets :
                Val(last.value).tickets[i].id = Get(ListingOf(last)[k], "id")

-----------------------------------------------------------------------------
(* SpecReject: a ticket is started, submitted for review, sent back and    *)
(* finished while the clock moves.                                         *)

RejectStatuses == {"backlog", "in-progress", "review", "done"}
NextReject ==
    \/ Tick
    \/ RoomForTicket(MaxLife) /\ createTicket([title |-> TitleFix])
    \/ \E id \in LifeIds, to \in RejectStatuses : moveTicket(id, to, None)

SpecReject == InitWip /\ [][NextReject]_vars

\* The file a moveTicket call names, and the count a record carries
MovedPath == ticketPath(last'.args.ticketId)
RejectionsOf(t) == IF Has(t, "rejectionCount") THEN t["rejectionCount"] ELSE 0
\* A successful move of a ticket out of review to a status other than done
Rejected ==
    /\ Called("moveTicket") /\ last'.ok
    /\ Get(files[MovedPath], "status") = Some("review")
    /\ last'.args.toStatus # "done"

\* C32: a successful moveTicket of a ticket in review to a status other than
\* done stores a rejectionCount one greater than before (1 when there was
\* none), which loadTicket still returns; every other successful move
\* leaves the count as it was
C32_RejectionCounted ==
    [][(Called("moveTicket") /\ last'.ok) =>
          /\ RejectionsOf(files'[MovedPath])
                = RejectionsOf(files[MovedPath]) + (IF Rejected THEN 1 ELSE 0)
          /\ RejectionsOf(Val(loadTicket(files', last'.args.ticketId)))
                = RejectionsOf(files'[MovedPath])]_vars

-----------------------------------------------------------------------------
(* SpecAsync: two callers, each with one call in flight, on one workspace. *)
(* A call is split at its awaits: between two steps of one call the other  *)
(* call may read and write. The moveTicket steps are those of SpecRace.    *)

AsyncFrame(pc, args) == Frame(pc, args, None, None, 0, None, "none")
\* A caller that has not made its call yet
NotStarted(p) == procs[p].pc = "idle" /\ procs[p].result = "none"
Begins(p, pc, args) ==
    /\ NotStarted(p)
    /\ procs' = [procs EXCEPT ![p] = AsyncFrame(pc, args)]
    /\ UNCHANGED <<board, dirs, files, clock, last, issued>>
\* The call returns value or throws err; the frame keeps what was returned
Returned(p, op, result, ok, err, value) ==
    /\ procs' = [procs EXCEPT ![p].pc = "idle", ![p].result = result, ![p].updated = value]
    /\ last' = Call(op, procs[p].args, ok, err, value)

\* initBoard: await loadBoard; return the existing board, or build one
InitStart(p, projectId, projectName) ==
    Begins(p, "initLoad", [projectId |-> projectId, projectName |-> projectName])
InitLoad(p) ==
    /\ procs[p].pc = "initLoad"
    /\ IF IsSome(loadBoard(board))
       THEN Returned(p, "initBoard", "existing", TRUE, <<>>, loadBoard(board))
       ELSE /\ procs' = [procs EXCEPT
                  ![p].pc = "initSave",
                  ![p].updated = Some(NewBoard(procs[p].args.projectId,
                                               procs[p].args.projectName, clock))]
            /\ UNCHANGED last
    /\ UNCHANGED <<board, dirs, files, clock, issued>>
\* await saveBoard(workspaceDir, board); return board
InitSave(p) ==
    /\ procs[p].pc = "initSave"
    /\ board' = procs[p].updated
    /\ dirs' = TRUE
    /\ Returned(p, "initBoard", "initialized", TRUE, <<>>, procs[p].updated)
    /\ UNCHANGED <<files, clock, issued>>

\* createTicket: await loadBoard; the id, the counter and the record; await
\* saveBoard; await saveTicket
AsyncCreateStart(p, input) == Begins(p, "createLoad", [input |-> input])
AsyncCreateLoad(p) ==
    /\ procs[p].pc = "createLoad"
    /\ IF ~IsSome(loadBoard(board))
       THEN Returned(p, "createTicket", "failed", FALSE, NotInitialized, None)
       ELSE /\ procs' = [procs EXCEPT
                  ![p].pc = "createBoard",
                  ![p].board = Some(CreateBoard(Val(board), clock)),
                  ![p].updated = Some(CreateRecord(Val(board), procs[p].args.input, clock))]
            /\ UNCHANGED last
    /\ UNCHANGED <<board, dirs, files, clock, issued>>
AsyncCreateBoard(p) ==
    /\ procs[p].pc = "createBoard"
    /\ board' = procs[p].board
    /\ dirs' = TRUE
    /\ procs' = [procs EXCEPT ![p].pc = "createTicket"]
    /\ UNCHANGED <<files, clock, last, issued>>
AsyncCreateTicket(p) ==
    /\ procs[p].pc = "createTicket"
    /\ dirs' = TRUE
    /\ files' = saveTicket(files, Val(procs[p].updated))
    /\ issued' = Append(issued, Val(procs[p].updated)["id"])
    /\ Returned(p, "createTicket", "created", TRUE, <<>>, procs[p].updated)
    /\ UNCHANGED <<board, clock>>

\* const ticket = await loadTicket(...); if (!ticket) throw; then the record
\* to save
TicketLoaded(p, op, pc, updated) ==
    /\ IF loadTicketThrows(files, procs[p].args.ticketId)
       THEN Returned(p, op, "failed", FALSE, loadTicketError(files, procs[p].args.ticketId), None)
       ELSE IF ~IsSome(loadTicket(files, procs[p].args.ticketId))
       THEN Returned(p, op, "failed", FALSE, NotFound(procs[p].args.ticketId), None)
       ELSE /\ procs' = [procs EXCEPT ![p].pc = pc, ![p].updated = Some(updated)]
            /\ UNCHANGED last
    /\ UNCHANGED <<board, dirs, files, clock, issued>>
\* await saveTicket(workspaceDir, updated); return updated
TicketSaved(p, op, result) ==
    /\ dirs' = TRUE
    /\ files' = saveTicket(files, Val(procs[p].updated))
    /\ Returned(p, op, result, TRUE, <<>>, procs[p].updated)
    /\ UNCHANGED <<board, clock, issued>>

CommentStart(p, ticketId, author, text) ==
    Begins(p, "commentLoad", [ticketId |-> ticketId, author |-> author, text |-> text])
CommentLoad(p) ==
    /\ procs[p].pc = "commentLoad"
    /\ TicketLoaded(p, "addComment", "commentSave",
                    CommentRecord(Val(loadTicket(files, procs[p].args.ticketId)),
                                  procs[p].args.author, procs[p].args.text, clock))
CommentSave(p) == procs[p].pc = "commentSave" /\ TicketSaved(p, "addComment", "commented")

UpdateStart(p, ticketId, input) ==
    Begins(p, "updateLoad", [ticketId |-> ticketId, input |-> input])
UpdateLoad(p) ==
    /\ procs[p].pc = "updateLoad"
    /\ TicketLoaded(p, "updateTicket", "updateSave",
                    UpdateRecord(Val(loadTicket(files, procs[p].args.ticketId)),
                                 procs[p].args.input, clock))
UpdateSave(p) == procs[p].pc = "updateSave" /\ TicketSaved(p, "updateTicket", "updated")

AsyncMoveStart(p, ticketId, toStatus) ==
    Begins(p, "load", [ticketId |-> ticketId, toStatus |-> toStatus, note |-> None])

\* The workspace: empty, or a board with one ticket made at time 0
AsyncBoard == NewBoard(ProjA, "Proj", 0)
AsyncTicket == CreateRecord(AsyncBoard, [title |-> TitleAdd], 0)
AsyncId == AsyncTicket["id"]
AsyncProject(p) == IF p = 1 THEN ProjA ELSE ProjB
AsyncInput(p) == IF p = 1 THEN [title |-> TitleFix] ELSE [title |-> TitleAdd, type |-> "bugfix"]
AsyncNote(p) == IF p = 1 THEN <<"first">> ELSE <<"second">>

InitAsync ==
    /\ \/ board = None /\ dirs = FALSE /\ files = <<>> /\ issued = <<>>
       \/ /\ board = Some(CreateBoard(AsyncBoard, 0))
          /\ dirs = TRUE
          /\ files = saveTicket(<<>>, AsyncTicket)
          /\ issued = <<AsyncId>>
    /\ clock = 1
    /\ last = Call("none", <<>>, TRUE, <<>>, None)
    /\ procs = [p \in Procs |-> IdleFrame]

NextAsync ==
    \/ \E p \in Procs : InitStart(p, AsyncProject(p), "Proj")
    \/ \E p \in Procs : InitLoad(p)
    \/ \E p \in Procs : InitSave(p)
    \/ \E p \in Procs : AsyncCreateStart(p, AsyncInput(p))
    \/ \E p \in Procs : AsyncCreateLoad(p)
    \/ \E p \in Procs : AsyncCreateBoard(p)
    \/ \E p \in Procs : AsyncCreateTicket(p)
    \/ \E p \in Procs : CommentStart(p, AsyncId, "agent", AsyncNote(p))
    \/ \E p \in Procs : CommentLoad(p)
    \/ \E p \in Procs : CommentSave(p)
    \/ \E p \in Procs : UpdateStart(p, AsyncId, [title |-> Some(TitleFix)])
    \/ \E p \in Procs : UpdateLoad(p)
    \/ \E p \in Procs : UpdateSave(p)
    \/ \E p \in Procs, to \in {"ready", "done"} : AsyncMoveStart(p, AsyncId, to)
    \/ \E p \in Procs : MoveLoad(p)
    \/ \E p \in Procs : MoveBoard(p)
    \/ \E p \in Procs : MoveCheck(p)
    \/ \E p \in Procs : MoveSave(p)

SpecAsync == InitAsync /\ [][NextAsync]_vars

\* Both callers' calls returned with the given result
BothReturned(result) == \A p \in Procs : procs[p].result = result
\* The number a createTicket call put in its id: one less than in the board
\* it went on to save
IssuedNumber(p) == Val(procs[p].board).settings.nextTicketNumber - 1

\* C33: when two interleaved createTicket calls have both returned, the two
\* tickets have distinct ids, both records are stored, and the stored
\* nextTicketNumber is greater than both issued numbers
C33_InterleavedCreatesDistinct ==
    BothReturned("created") =>
        /\ Val(procs[1].updated)["id"] # Val(procs[2].updated)["id"]
        /\ \A p \in Procs : loadTicket(files, Val(procs[p].updated)["id"]) = procs[p].updated
        /\ \A p \in Procs : Val(board).settings.nextTicketNumber > IssuedNumber(p)

\* The caller's call is a moveTicket that has been started
IsMove(p) == Has(procs[p].args, "toStatus") /\ procs[p].args.toStatus # ""

\* C34: once a moveTicket of the ticket has returned successfully, and the
\* other caller's call is not a moveTicket, the stored status is the target
\* of that move, whatever addComment or updateTicket call was in flight
C34_MoveOutlastsWriters ==
    \A p \in Procs :
        (procs[p].result = "moved" /\ \A q \in Procs \ {p} : ~IsMove(q)) =>
            Get(files[ticketPath(AsyncId)], "status") = Some(procs[p].args.toStatus)

\* C35: when two interleaved addComment calls on one ticket have both
\* returned successfully, the stored ticket holds both comments
C35_BothCommentsStored ==
    BothReturned("commented") =>
        \A p \in Procs :
            \E i \in DOMAIN CommentsOf(ticketPath(AsyncId)) :
                CommentsOf(ticketPath(AsyncId))[i].text = AsyncNote(p)

\* The caller's initBoard call has returned
InitReturned(p) == procs[p].result \in {"existing", "initialized"}

\* C38: when two interleaved initBoard calls with different project ids
\* have both returned, they returned the same board, which is the stored one
C38_FirstInitWins ==
    (\A p \in Procs : InitReturned(p)) =>
        procs[1].updated = procs[2].updated /\ procs[1].updated = board

-----------------------------------------------------------------------------
(* The moved ticket and the limit of its own column, in SpecWip.           *)

\* The stored tickets in a column
Holding(status) == {f \in DOMAIN files : Get(files[f], "status") = Some(status)}
\* A moveTicket call on a stored ticket, by any id that resolves to its file,
\* into the column it is in, which holds exactly wipLimit tickets
MoveWithinFullColumn ==
    /\ Called("moveTicket")
    /\ MovedPath \in DOMAIN files
    /\ Get(files[MovedPath], "status") = Some(last'.args.toStatus)
    /\ HasWipLimit(FindColumn(Val(board), last'.args.toStatus))
    /\ Cardinality(Holding(last'.args.toStatus))
          = WipLimitOf(FindColumn(Val(board), last'.args.toStatus))

\* C36: moveTicket of a ticket into the column it is already in, when that
\* column holds exactly wipLimit tickets, succeeds and restamps
\* statusChangedAt, for every id string that resolves to the ticket's file
C36_SelfNotCounted ==
    [][MoveWithinFullColumn =>
          /\ last'.ok
          /\ Get(files'[MovedPath], "statusChangedAt") = Some(clock)]_vars

-----------------------------------------------------------------------------
(* SpecZero: a board file whose in-progress column was given the wipLimit  *)
(* 0 or 1, over the workspaces of SpecQueue.                               *)

ZeroLimits == {0, 1}
\* in-progress is the third of the default columns
ZeroBoard(limit) ==
    [NewBoardNumbered(MaxQueue + 1) EXCEPT !.columns[3].wipLimit = Some(limit)]

InitZero ==
    /\ board \in {Some(ZeroBoard(l)) : l \in ZeroLimits}
    /\ dirs = TRUE
    /\ files \in {QueueFiles(g) : g \in QueueDraws}
    /\ clock = 1
    /\ last = Call("none", <<>>, TRUE, <<>>, None)
    /\ issued = <<>>
    /\ procs = NoProcs

NextZero ==
    \/ \E names \in QueueOrders : getNextWorkItemCall(names)
    \/ \E id \in Range(QueueIdSeq) : moveTicket(id, "in-progress", None)

SpecZero == InitZero /\ [][NextZero]_vars

\* The in-progress column is configured with the limit 0
ZeroInProgress == FindColumn(Val(board), "in-progress") = Some([id |-> "in-progress", name |-> "In Progress", wipLimit |-> Some(0)])
\* A moveTicket call that takes a stored ticket from another column into
\* in-progress
MoveIntoInProgress ==
    /\ Called("moveTicket")
    /\ last'.args.toStatus = "in-progress"
    /\ MovedPath \in DOMAIN files
    /\ Get(files[MovedPath], "status") # Some("in-progress")

\* C37: with the in-progress column's wipLimit at 0, getNextWorkItem returns
\* null and every moveTicket of a ticket from another column into
\* in-progress fails with a capacity error and writes nothing
C37_ZeroLimitAdmitsNothing ==
    /\ []((last.op = "getNextWorkItem" /\ ZeroInProgress) => last.value = None)
    /\ [][(MoveIntoInProgress /\ ZeroInProgress) =>
             /\ ~last'.ok
             /\ last'.err = WipError(Val(board), listDir(dirs, files), "in-progress",
                                     last'.args.ticketId)
             /\ files' = files]_vars

-----------------------------------------------------------------------------
(* Older-schema records with a plain-string progressNotes, in SpecDisk.    *)

\* The file holds a record with an id whose progressNotes is a non-empty
\* string
StringNotes(f) ==
    /\ Has(files[f], "id")
    /\ Has(files[f], "progressNotes")
    /\ ~files[f]["progressNotes"].list
    /\ files[f]["progressNotes"].notes # <<>>

\* C39: a stored record with an id whose progressNotes is a non-empty plain
\* string is returned normalized by loadTicket, without an error, and is
\* among the tickets listTickets returns
C39_StringNotesReadable ==
    /\ (/\ last.op = "loadTicket"
        /\ ticketPath(last.args.ticketId) \in DOMAIN files
        /\ StringNotes(ticketPath(last.args.ticketId)))
          => (/\ last.ok
              /\ IsSome(last.value)
              /\ ~Has(Val(last.value), "progressNotes"))
    /\ (Listed /\ dirs) =>
          \A f \in DOMAIN files : StringNotes(f) => f \in DOMAIN Val(last.value)

-----------------------------------------------------------------------------
(* getNextWorkItem against moveTicket's capacity check, in SpecZero.       *)

\* The configured limit of in-progress (None when unbounded), and the column
\* holding that many tickets or more
InProgressLimit == Val(FindColumn(Val(board), "in-progress")).wipLimit
AtLimit ==
    IsSome(InProgressLimit) /\ Cardinality(Holding("in-progress")) >= Val(InProgressLimit)
\* The call that follows a getNextWorkItem which returned a ticket is a
\* moveTicket of that ticket into in-progress
MovesOffered ==
    /\ last.op = "getNextWorkItem" /\ IsSome(last.value)
    /\ Called("moveTicket")
    /\ last'.args.toStatus = "in-progress"
    /\ last'.args.ticketId = Val(last.value)["id"]

\* C40: a moveTicket into in-progress of the ticket getNextWorkItem has just
\* returned succeeds, and getNextWorkItem returns null whenever in-progress
\* is at its limit
C40_NextWorkItemCanStart ==
    /\ [][MovesOffered => last'.ok]_vars
    /\ []((last.op = "getNextWorkItem" /\ AtLimit) => last.value = None)

====
